---- MODULE Spec2Model ----
(***************************************************************************)
(* Reading-list application: the category path codec, the category tree,   *)
(* and the filtered search over the catalog (app/services).                *)
(*                                                                         *)
(* Text is a sequence of Unicode code points; a byte string is a sequence  *)
(* of numbers 0..255; a token is a sequence of ASCII codes.                *)
(*   32 ' '   37 '%'   42 '*'   43 '+'   45 '-'   47 '/'   61 '='          *)
(*   62 '>'   63 '?'   65 'A'   67 'C'   70 'F'   95 '_'   97 'a'  98 'b'  *)
(***************************************************************************)
EXTENDS Integers, Sequences, FiniteSets, TLC

VARIABLES
    books,            \* table books: rows [id, author, title, categories_flat]
    reading_status,   \* table reading_status: rows [id, user_id, book_id, status]
    feedback,         \* table feedback: rows [id, user_id, book_id, feedback]
    tags,             \* table tags: rows [id, name, owner_id]
    tag_books,        \* table tag_books: rows [id, tag_id, book_id]
    next_id,          \* autoincrement counter of each table
    result,           \* the last call and what it returned
    fullpath,         \* codec: the string handed to _fullpath_to_id
    token,            \* codec: the token it produced
    decoded,          \* codec: what id_to_fullpath made of the token
    pending,          \* workers: the request each worker is in the middle of
    user_store,       \* user datastore: fs_uniquifier -> active, inactive, absent
    user_cache,       \* SimpleCache: cache key -> the user object stored
    session,          \* the client's session: key -> value
    now,              \* time.time()
    request           \* the request the before_request hooks are run for

vars == <<books, reading_status, feedback, tags, tag_books, next_id, result,
          fullpath, token, decoded, pending, user_store, user_cache, session,
          now, request>>

dbVars == <<books, reading_status, feedback, tags, tag_books, next_id>>
codecVars == <<fullpath, token, decoded>>
workerVars == <<pending>>
loginVars == <<user_store, user_cache>>
sessionVars == <<session, now, request>>
webVars == <<workerVars, loginVars, sessionVars>>

\* Python None and SQL NULL, one per type of value
None == "None"                \* a missing string argument
NoUser == 0                   \* user_id of a caller who is not authenticated
NullRow == [null |-> TRUE]    \* the missing partner of an outer join
NullText == <<-1>>            \* a NULL text column: equal to no string
NoCall == [op |-> "none"]
Workers == {1, 2}             \* the workers that serve requests side by side
Idle == [pc |-> "idle"]        \* a worker between two requests

(***************************************************************************)
(* Path codec (app/services/category_service.py)                           *)
(***************************************************************************)
MaxLen == 3           \* longest string handed to the codec

\* Code points the codec inputs are drawn from: ASCII that encodes to '+'
\* and '/', the separator's characters, and 2-, 3- and 4-byte code points.
CodePoints == {32, 62, 63, 67, 233, 8364, 128512}

Ok(v) == [ok |-> TRUE, val |-> v]
Fail(e) == [ok |-> FALSE, err |-> e]

RECURSIVE Flatten(_)
Flatten(ss) == IF ss = <<>> THEN <<>> ELSE Head(ss) \o Flatten(Tail(ss))

\* str.encode('utf-8') of one code point; a surrogate cannot be encoded.
Utf8EncodeChar(cp) ==
    IF cp < 128 THEN <<cp>>
    ELSE IF cp < 2048 THEN <<192 + (cp \div 64), 128 + (cp % 64)>>
    ELSE IF cp < 65536 THEN
        <<224 + (cp \div 4096), 128 + ((cp \div 64) % 64), 128 + (cp % 64)>>
    ELSE <<240 + (cp \div 262144), 128 + ((cp \div 4096) % 64),
           128 + ((cp \div 64) % 64), 128 + (cp % 64)>>

IsSurrogate(cp) == cp >= 55296 /\ cp <= 57343

Utf8Encode(s) ==
    IF \E i \in 1..Len(s) : IsSurrogate(s[i])
    THEN Fail("UnicodeEncodeError")
    ELSE Ok(Flatten([i \in 1..Len(s) |-> Utf8EncodeChar(s[i])]))

\* The standard Base64 alphabet: index 0..63 -> ASCII code.
B64Char(i) ==
    IF i < 26 THEN 65 + i
    ELSE IF i < 52 THEN 97 + (i - 26)
    ELSE IF i < 62 THEN 48 + (i - 52)
    ELSE IF i = 62 THEN 43 ELSE 47

\* ASCII code -> index 0..63, or 64 for a character outside the alphabet.
B64Index(c) ==
    IF c >= 65 /\ c <= 90 THEN c - 65
    ELSE IF c >= 97 /\ c <= 122 THEN c - 97 + 26
    ELSE IF c >= 48 /\ c <= 57 THEN c - 48 + 52
    ELSE IF c = 43 THEN 62
    ELSE IF c = 47 THEN 63 ELSE 64

\* base64.b64encode: three bytes to four characters, '=' padding.
RECURSIVE B64Encode(_)
B64Encode(bs) ==
    IF Len(bs) = 0 THEN <<>>
    ELSE IF Len(bs) = 1 THEN
        <<B64Char(bs[1] \div 4), B64Char((bs[1] % 4) * 16), 61, 61>>
    ELSE IF Len(bs) = 2 THEN
        <<B64Char(bs[1] \div 4),
          B64Char((bs[1] % 4) * 16 + (bs[2] \div 16)),
          B64Char((bs[2] % 16) * 4), 61>>
    ELSE
        <<B64Char(bs[1] \div 4),
          B64Char((bs[1] % 4) * 16 + (bs[2] \div 16)),
          B64Char((bs[2] % 16) * 4 + (bs[3] \div 64)),
          B64Char(bs[3] % 64)>> \o B64Encode(SubSeq(bs, 4, Len(bs)))

\* str.replace(old, new) for single characters.
Replace(s, old, new) == [i \in 1..Len(s) |-> IF s[i] = old THEN new ELSE s[i]]

\* Faulty variant: the '+' -> '-' substitution is left out.
fullpath_to_id_no_plus(s) ==
    LET bytes == Utf8Encode(s) IN
    IF ~bytes.ok THEN bytes
    ELSE Ok(Replace(Replace(B64Encode(bytes.val), 47, 95), 61, 42))

\* _fullpath_to_id: Base64 of the UTF-8 bytes, then '+'->'-', '/'->'_', '='->'*'.
fullpath_to_id(s) ==
    LET bytes == Utf8Encode(s) IN
    IF ~bytes.ok THEN bytes
    ELSE Ok(Replace(Replace(Replace(B64Encode(bytes.val), 43, 45), 47, 95), 61, 42))

\* binascii.a2b_base64 (non-strict mode, as base64.b64decode calls it): one
\* character consumed; st = [qp, left, pads, out, done].
A2bStep(st, c) ==
    IF st.done THEN st
    ELSE IF c = 61 THEN
        IF st.qp >= 2 /\ st.qp + st.pads + 1 >= 4
        THEN [st EXCEPT !.done = TRUE]
        ELSE IF st.qp >= 2 THEN [st EXCEPT !.pads = st.pads + 1] ELSE st
    ELSE IF B64Index(c) = 64 THEN st        \* outside the alphabet: skipped
    ELSE LET v == B64Index(c) IN
         IF st.qp = 0 THEN [st EXCEPT !.qp = 1, !.left = v, !.pads = 0]
         ELSE IF st.qp = 1 THEN
            [st EXCEPT !.qp = 2, !.left = v % 16, !.pads = 0,
                       !.out = Append(st.out, st.left * 4 + (v \div 16))]
         ELSE IF st.qp = 2 THEN
            [st EXCEPT !.qp = 3, !.left = v % 4, !.pads = 0,
                       !.out = Append(st.out, st.left * 16 + (v \div 4))]
         ELSE
            [st EXCEPT !.qp = 0, !.left = 0, !.pads = 0,
                       !.out = Append(st.out, st.left * 64 + v)]

RECURSIVE A2bRun(_, _)
A2bRun(st, t) == IF t = <<>> THEN st ELSE A2bRun(A2bStep(st, Head(t)), Tail(t))

\* Faulty variant: b64decode(..., validate=True), which rejects a character
\* outside the alphabet instead of skipping it.
B64Decode_validate(t) ==
    IF \E i \in 1..Len(t) : t[i] > 127 THEN Fail("ValueError")
    ELSE IF \E i \in 1..Len(t) : t[i] # 61 /\ B64Index(t[i]) = 64
    THEN Fail("binascii.Error")
    ELSE LET st == A2bRun([qp |-> 0, left |-> 0, pads |-> 0, out |-> <<>>,
                           done |-> FALSE], t) IN
         IF ~st.done /\ st.qp # 0 THEN Fail("binascii.Error") ELSE Ok(st.out)

\* base64.b64decode of a str: ASCII only, then a2b_base64.
B64Decode(t) ==
    IF \E i \in 1..Len(t) : t[i] > 127 THEN Fail("ValueError")
    ELSE LET st == A2bRun([qp |-> 0, left |-> 0, pads |-> 0, out |-> <<>>,
                           done |-> FALSE], t) IN
         IF ~st.done /\ st.qp # 0 THEN Fail("binascii.Error") ELSE Ok(st.out)

IsCont(b) == b >= 128 /\ b <= 191

\* bytes.decode('utf-8'), strict: shortest form only, no surrogates, at most
\* U+10FFFF.
RECURSIVE Utf8Decode(_)
Utf8Decode(bs) ==
    IF bs = <<>> THEN Ok(<<>>)
    ELSE LET b == bs[1]
             n == IF b < 128 THEN 1
                  ELSE IF b >= 194 /\ b <= 223 THEN 2
                  ELSE IF b >= 224 /\ b <= 239 THEN 3
                  ELSE IF b >= 240 /\ b <= 244 THEN 4 ELSE 0
         IN
         IF n = 0 \/ Len(bs) < n \/ \E i \in 2..n : ~IsCont(bs[i])
         THEN Fail("UnicodeDecodeError")
         ELSE LET cp == IF n = 1 THEN b
                        ELSE IF n = 2 THEN (b - 192) * 64 + (bs[2] - 128)
                        ELSE IF n = 3 THEN (b - 224) * 4096 + (bs[2] - 128) * 64
                                           + (bs[3] - 128)
                        ELSE (b - 240) * 262144 + (bs[2] - 128) * 4096
                             + (bs[3] - 128) * 64 + (bs[4] - 128)
                  rest == Utf8Decode(SubSeq(bs, n + 1, Len(bs)))
              IN
              IF (n = 3 /\ cp < 2048) \/ (n = 4 /\ cp < 65536) \/ cp > 1114111
                 \/ IsSurrogate(cp)
              THEN Fail("UnicodeDecodeError")
              ELSE IF ~rest.ok THEN rest ELSE Ok(<<cp>> \o rest.val)

\* Faulty variant: the '_' -> '/' substitution is left out.
id_to_fullpath_no_slash(encoded_id) ==
    LET safe_decoded == Replace(Replace(encoded_id, 45, 43), 42, 61)
        bytes == B64Decode(safe_decoded)
    IN IF ~bytes.ok THEN bytes ELSE Utf8Decode(bytes.val)

\* id_to_fullpath: '-'->'+', '_'->'/', '*'->'=', Base64 decode, UTF-8 decode.
id_to_fullpath(encoded_id) ==
    LET safe_decoded == Replace(Replace(Replace(encoded_id, 45, 43), 95, 47), 42, 61)
        bytes == B64Decode(safe_decoded)
    IN IF ~bytes.ok THEN bytes ELSE Utf8Decode(bytes.val)

(***************************************************************************)
(* Storage (app/models) and the requests that write it                     *)
(***************************************************************************)
MaxRows == 2          \* rows inserted into the per-user tables, in total

Users == {1, 2}
BookIds == {1, 2}

\* ReadingStatusEnum, FeedbackEnum
ReadingStatusEnum == {"up_next", "read"}
FeedbackEnum == {"like", "dislike"}

\* Tag names a request may carry: "x", "Y".
TagNames == {<<120>>, <<89>>}

Book(id, author, title, categories_flat) ==
    [id |-> id, author |-> author, title |-> title,
     categories_flat |-> categories_flat]

\* The catalogs the searches run over.  Texts: "Ab", "a_", "b", "a";
\* category strings: "C", "C > A", "F", NULL.  The first has a category that
\* extends another and an author order that differs from the id order, the
\* second a book without a category and two equal titles and authors.
Catalogs ==
    { { Book(1, <<97, 95>>, <<65, 98>>, <<67, 32, 62, 32, 65>>),
        Book(2, <<65, 98>>, <<98>>, <<67>>) },
      { Book(1, <<98>>, <<97>>, NullText),
        Book(2, <<98>>, <<97>>, <<70>>) } }

Inserted == (next_id.reading_status - 1) + (next_id.feedback - 1)
            + (next_id.tags - 1) + (next_id.tag_books - 1)

\* str.lower() on ASCII letters
LowerChar(c) == IF c >= 65 /\ c <= 90 THEN c + 32 ELSE c
Lower(s) == [i \in 1..Len(s) |-> LowerChar(s[i])]

\* Query.first() of a filter_by(user_id, book_id): some matching row, or None.
FirstOf(rows) == IF rows = {} THEN {NullRow} ELSE rows

\* str.isdigit(): not empty, every character a digit.  Beside '0'..'9' the
\* digits include characters that are no decimal digits, such as the
\* superscripts U+00B2, U+00B3 and U+00B9.
IsDigit(text) ==
    /\ text # NullText /\ text # <<>>
    /\ \A i \in 1..Len(text) :
          (text[i] >= 48 /\ text[i] <= 57) \/ text[i] \in {178, 179, 185}

\* The integer the database makes of a string compared with, or stored in,
\* an integer column: the value of its leading decimal digits, 0 if none.
RECURSIVE DbIntFrom(_, _)
DbIntFrom(text, n) ==
    IF text = <<>> \/ Head(text) < 48 \/ Head(text) > 57 THEN n
    ELSE DbIntFrom(Tail(text), 10 * n + (Head(text) - 48))

DbInt(text) == DbIntFrom(text, 0)

\* The INSERT of a row for book_id is refused (the string is no integer, or
\* no book has the id: foreign key books.id) and the exception leaves the
\* function.
InsertRaises(book_id) ==
    \/ \E i \in 1..Len(book_id) : book_id[i] < 48 \/ book_id[i] > 57
    \/ DbInt(book_id) \notin {b.id : b \in books}

\* set_book_status raises: a status other than "none", no row yet, and the
\* INSERT is refused.
set_book_status_raises(book_id, status, user_id) ==
    /\ status # "none"
    /\ ~\E r \in reading_status : r.user_id = user_id /\ r.book_id = DbInt(book_id)
    /\ InsertRaises(book_id)

\* Faulty variant: the row looked up is any user's row of the book.
set_book_status_any_user(book_id, status, user_id) ==
    \E existing_status \in FirstOf({r \in reading_status :
                                     r.book_id = DbInt(book_id)}) :
        IF status = "none" THEN
            /\ reading_status' = IF existing_status # NullRow
                                 THEN {r \in reading_status : r.id # existing_status.id}
                                 ELSE reading_status
            /\ next_id' = next_id
        ELSE IF existing_status # NullRow THEN
            /\ reading_status' =
                  {IF r.id = existing_status.id THEN [r EXCEPT !.status = status] ELSE r
                   : r \in reading_status}
            /\ next_id' = next_id
        ELSE IF InsertRaises(book_id) THEN
            /\ reading_status' = reading_status
            /\ next_id' = next_id
        ELSE
            /\ Inserted < MaxRows
            /\ reading_status' = reading_status \cup
                  {[id |-> next_id.reading_status, user_id |-> user_id,
                    book_id |-> DbInt(book_id), status |-> status]}
            /\ next_id' = [next_id EXCEPT !.reading_status = @ + 1]

\* set_book_status(book_id, status, user_id); book_id is the request's string
set_book_status(book_id, status, user_id) ==
    \E existing_status \in FirstOf({r \in reading_status :
                                     r.user_id = user_id
                                     /\ r.book_id = DbInt(book_id)}) :
        IF status = "none" THEN
            /\ reading_status' = IF existing_status # NullRow
                                 THEN {r \in reading_status : r.id # existing_status.id}
                                 ELSE reading_status
            /\ next_id' = next_id
        ELSE IF existing_status # NullRow THEN
            /\ reading_status' =
                  {IF r.id = existing_status.id THEN [r EXCEPT !.status = status] ELSE r
                   : r \in reading_status}
            /\ next_id' = next_id
        ELSE IF InsertRaises(book_id) THEN
            /\ reading_status' = reading_status
            /\ next_id' = next_id
        ELSE
            /\ Inserted < MaxRows
            /\ reading_status' = reading_status \cup
                  {[id |-> next_id.reading_status, user_id |-> user_id,
                    book_id |-> DbInt(book_id), status |-> status]}
            /\ next_id' = [next_id EXCEPT !.reading_status = @ + 1]

\* set_book_feedback raises, likewise
set_book_feedback_raises(book_id, fb, user_id) ==
    /\ fb # "none"
    /\ ~\E r \in feedback : r.user_id = user_id /\ r.book_id = DbInt(book_id)
    /\ InsertRaises(book_id)

\* set_book_feedback(book_id, fb, user_id); book_id is the request's string
set_book_feedback(book_id, fb, user_id) ==
    \E existing_feedback \in FirstOf({r \in feedback :
                                       r.user_id = user_id
                                       /\ r.book_id = DbInt(book_id)}) :
        IF fb = "none" THEN
            /\ feedback' = IF existing_feedback # NullRow
                           THEN {r \in feedback : r.id # existing_feedback.id}
                           ELSE feedback
            /\ next_id' = next_id
        ELSE IF existing_feedback # NullRow THEN
            /\ feedback' =
                  {IF r.id = existing_feedback.id THEN [r EXCEPT !.feedback = fb] ELSE r
                   : r \in feedback}
            /\ next_id' = next_id
        ELSE IF InsertRaises(book_id) THEN
            /\ feedback' = feedback
            /\ next_id' = next_id
        ELSE
            /\ Inserted < MaxRows
            /\ feedback' = feedback \cup
                  {[id |-> next_id.feedback, user_id |-> user_id,
                    book_id |-> DbInt(book_id), feedback |-> fb]}
            /\ next_id' = [next_id EXCEPT !.feedback = @ + 1]

\* Who sends a request: nobody signed in (NoUser), user 1 without a role,
\* user 2 an editor, user 3 an administrator (the user create_app makes has
\* the role admin alone).
Accounts == {1, 2, 3}
RolesOf(user_id) ==
    IF user_id = 2 THEN {"editor"} ELSE IF user_id = 3 THEN {"admin"} ELSE {}

\* @auth_required(): the view runs for a signed-in caller; any other caller
\* is redirected to /login (302).
auth_required(user_id) == user_id # NoUser

\* Faulty variant: the role is not looked at, a login is enough.
roles_required_login(role, user_id) == user_id # NoUser

\* @roles_required(role): the view runs for a caller whose identity holds the
\* role; any other caller, signed in or not, is answered 403.
roles_required(role, user_id) == role \in RolesOf(user_id)

\* The form of a POST: book_id "1", "2", "x", U+00B2 or missing, with a value
\* that is allowed, not allowed ("x...") or missing.  A request has a valid
\* book_id and value, or an invalid book_id, or an invalid value.
BookIdParams == {<<49>>, <<50>>, <<120>>, <<178>>, NullText}

ChangeForms(allowed, invalid) ==
    { f \in [book_id : BookIdParams, value : allowed \cup {invalid, None}] :
        \/ f.book_id \in {<<49>>, <<50>>} /\ f.value \in allowed
        \/ f.book_id \notin {<<49>>, <<50>>} /\ f.value \in {"none", "read", "like"}
        \/ f.book_id = <<49>> }

\* POST /change_status
ChangeStatus ==
    /\ result = NoCall
    /\ \E user_id \in Users \cup {NoUser},
          form \in ChangeForms({"read", "up_next", "none"}, "xread") :
        LET book_id == form.book_id
            status == form.value
            response(code) == [op |-> "change_status", user_id |-> user_id,
                               form |-> form, status |-> code]
        IN
        IF ~auth_required(user_id)
        THEN /\ result' = response(302)
             /\ UNCHANGED <<dbVars, codecVars, webVars>>
        ELSE IF ~IsDigit(book_id) \/ status = None
           \/ status \notin {"read", "up_next", "none"}
        THEN /\ result' = response(400)
             /\ UNCHANGED <<dbVars, codecVars, webVars>>
        ELSE /\ set_book_status(book_id, status, user_id)
             /\ result' = response(IF set_book_status_raises(book_id, status, user_id)
                                    THEN 500 ELSE 200)
             /\ UNCHANGED <<books, feedback, tags, tag_books, codecVars, webVars>>

\* POST /change_feedback
ChangeFeedback ==
    /\ result = NoCall
    /\ \E user_id \in Users \cup {NoUser},
          form \in ChangeForms({"like", "dislike", "none"}, "xlike") :
        LET book_id == form.book_id
            fb == form.value
            response(code) == [op |-> "change_feedback", user_id |-> user_id,
                               form |-> form, status |-> code]
        IN
        IF ~auth_required(user_id)
        THEN /\ result' = response(302)
             /\ UNCHANGED <<dbVars, codecVars, webVars>>
        ELSE IF ~IsDigit(book_id) \/ fb = None
           \/ fb \notin {"like", "dislike", "none"}
        THEN /\ result' = response(400)
             /\ UNCHANGED <<dbVars, codecVars, webVars>>
        ELSE /\ set_book_feedback(book_id, fb, user_id)
             /\ result' = response(IF set_book_feedback_raises(book_id, fb, user_id)
                                    THEN 500 ELSE 200)
             /\ UNCHANGED <<books, reading_status, tags, tag_books, codecVars, webVars>>

\* get_book_by_id(book_id, user_id, load_status=True, load_feedback=True):
\* the book with its rows of the user, NullRow when no book has the id.
get_book_by_id(book_id, user_id) ==
    LET found == {b \in books : b.id = DbInt(book_id)} IN
    IF found = {} THEN NullRow
    ELSE LET book == CHOOSE b \in found : TRUE IN
         [id |-> book.id,
          reading_statuses |-> IF user_id = NoUser THEN {}
                               ELSE {r \in reading_status :
                                       r.user_id = user_id /\ r.book_id = book.id},
          feedbacks |-> IF user_id = NoUser THEN {}
                        ELSE {r \in feedback :
                                r.user_id = user_id /\ r.book_id = book.id}]

\* book_to_dict_with_status_and_feedback(book, user_id): the sets of dicts the
\* call may return ([0] of the loaded rows); a key that is not set is None.
book_to_dict_with_status_and_feedback(book, user_id) ==
    IF user_id = NoUser
    THEN {[id |-> book.id, status |-> None, feedback |-> None]}
    ELSE {[id |-> book.id, status |-> st, feedback |-> fb] :
            st \in IF book.reading_statuses # {}
                   THEN {r.status : r \in book.reading_statuses} ELSE {"none"},
            fb \in IF book.feedbacks # {}
                   THEN {r.feedback : r \in book.feedbacks} ELSE {"none"}}

\* GET /details?id=book_id by user_id: the responses it may give
details(book_id, user_id) ==
    IF ~IsDigit(book_id) THEN {[status |-> 400, book |-> NullRow]}
    ELSE LET book == get_book_by_id(book_id, user_id) IN
         IF book = NullRow THEN {[status |-> 404, book |-> NullRow]}
         ELSE {[status |-> 200, book |-> d] :
                 d \in book_to_dict_with_status_and_feedback(book, user_id)}

Details ==
    /\ result = NoCall
    /\ \E user_id \in Users \cup {NoUser}, book_id \in BookIdParams :
         \E response \in details(book_id, user_id) :
            result' = [op |-> "details", user_id |-> user_id, id |-> book_id,
                       status |-> response.status, book |-> response.book]
    /\ UNCHANGED <<dbVars, codecVars, webVars>>

(***************************************************************************)
(* The catalog routes: /add_book, /edit_book, /delete_book                 *)
(***************************************************************************)
MaxAdded == 1         \* books added to the catalog

\* The book forms: the method, the id (0: missing or no integer), the author
\* ("" fails DataRequired, "a" passes), and the title and category strings,
\* which always pass.
BookForms ==
    [method : {"GET", "POST"}, id : {0, 1, 3}, author : {<<>>, <<97>>},
     title : {<<98>>}, categories_flat : {<<70>>}]

\* form.validate_on_submit(): a POST whose fields pass their validators
validate_on_submit(form) == form.method = "POST" /\ form.author # <<>>

\* add_new_book(book_form): the catalog with the new row
add_new_book(form) ==
    books \cup {Book(next_id.books, form.author, form.title, form.categories_flat)}

\* update_book(book_form): Ok(the catalog with the row rewritten), or the
\* RuntimeError that wraps the AttributeError of a book that was not found
update_book(form) ==
    IF \E b \in books : b.id = form.id
    THEN Ok({IF b.id = form.id
             THEN Book(b.id, form.author, form.title, form.categories_flat)
             ELSE b : b \in books})
    ELSE Fail("RuntimeError")

\* del_book(book_id): Ok(the catalog without the row), or the RuntimeError
\* that wraps the ValueError of a book that was not found and the error of
\* the flush, which sets book_id of the book's status and feedback rows to
\* NULL in columns that are not nullable.
del_book(book_id) ==
    LET found == {b \in books : b.id = DbInt(book_id)} IN
    IF found = {} THEN Fail("RuntimeError")
    ELSE IF \E r \in reading_status \cup feedback : r.book_id = DbInt(book_id)
    THEN Fail("RuntimeError")
    ELSE Ok(books \ found)

\* /add_book
AddBook ==
    /\ result = NoCall
    /\ \E user_id \in Accounts \cup {NoUser}, form \in BookForms :
        LET response(code) == [op |-> "add_book", user_id |-> user_id,
                               form |-> form, status |-> code]
        IN
        /\ form.id = 0
        /\ IF ~roles_required("editor", user_id)
           THEN /\ result' = response(403)
                /\ UNCHANGED <<dbVars, codecVars, webVars>>
           ELSE IF validate_on_submit(form)
           THEN /\ next_id.books - 3 < MaxAdded
                /\ books' = add_new_book(form)
                /\ next_id' = [next_id EXCEPT !.books = @ + 1]
                /\ result' = response(302)
                /\ UNCHANGED <<reading_status, feedback, tags, tag_books, codecVars, webVars>>
           ELSE /\ result' = response(200)
                /\ UNCHANGED <<dbVars, codecVars, webVars>>

\* /edit_book
EditBook ==
    /\ result = NoCall
    /\ \E user_id \in Accounts \cup {NoUser}, form \in BookForms :
        LET response(code) == [op |-> "edit_book", user_id |-> user_id,
                               form |-> form, status |-> code]
            updated == update_book(form)
        IN
        IF ~roles_required("editor", user_id)
        THEN /\ result' = response(403)
             /\ UNCHANGED <<dbVars, codecVars, webVars>>
        ELSE IF form.id = 0
        THEN /\ result' = response(400)
             /\ UNCHANGED <<dbVars, codecVars, webVars>>
        ELSE IF form.method = "POST" /\ validate_on_submit(form) /\ updated.ok
        THEN /\ books' = updated.val
             /\ result' = response(302)
             /\ UNCHANGED <<reading_status, feedback, tags, tag_books, next_id,
                            codecVars, webVars>>
        ELSE /\ result' = response(IF form.method = "GET"
                                      /\ ~\E b \in books : b.id = form.id
                                   THEN 302 ELSE 200)
             /\ UNCHANGED <<dbVars, codecVars, webVars>>

\* POST /delete_book; the rows of tag_books go with the book (ON DELETE
\* CASCADE).
DeleteBook ==
    /\ result = NoCall
    /\ \E user_id \in Accounts \cup {NoUser}, book_id \in {<<49>>, <<51>>, <<120>>} :
        LET response(code) == [op |-> "delete_book", user_id |-> user_id,
                               form |-> [book_id |-> book_id], status |-> code]
            deleted == del_book(book_id)
        IN
        IF ~roles_required("admin", user_id)
        THEN /\ result' = response(403)
             /\ UNCHANGED <<dbVars, codecVars, webVars>>
        ELSE IF ~IsDigit(book_id)
        THEN /\ result' = response(400)
             /\ UNCHANGED <<dbVars, codecVars, webVars>>
        ELSE IF deleted.ok
        THEN /\ books' = deleted.val
             /\ tag_books' = {tb \in tag_books : tb.book_id # DbInt(book_id)}
             /\ result' = response(200)
             /\ UNCHANGED <<reading_status, feedback, tags, next_id, codecVars, webVars>>
        ELSE /\ result' = response(500)
             /\ UNCHANGED <<dbVars, codecVars, webVars>>

\* POST /add_tag: _check_for_required_tag_and_book lower-cases the name,
\* get_or_create_tag finds or inserts the caller's tag, tag_book finds or
\* inserts the association.
AddTag ==
    /\ result = NoCall
    /\ \E user_id \in Users, book_id \in BookIds, tag_name \in TagNames :
        LET name == Lower(tag_name)
            found == {t \in tags : t.owner_id = user_id /\ t.name = name}
            tag_id == IF found # {} THEN (CHOOSE t \in found : TRUE).id
                      ELSE next_id.tags
            n_tag == IF found # {} THEN 0 ELSE 1
            book_tag == {tb \in tag_books : tb.tag_id = tag_id /\ tb.book_id = book_id}
            n_tb == IF book_tag # {} THEN 0 ELSE 1
        IN  /\ Inserted + n_tag + n_tb <= MaxRows
            /\ tags' = IF found # {} THEN tags
                       ELSE tags \cup {[id |-> tag_id, name |-> name,
                                        owner_id |-> user_id]}
            /\ tag_books' = IF book_tag # {} THEN tag_books
                            ELSE tag_books \cup {[id |-> next_id.tag_books,
                                                  tag_id |-> tag_id,
                                                  book_id |-> book_id]}
            /\ next_id' = [next_id EXCEPT !.tags = @ + n_tag, !.tag_books = @ + n_tb]
            /\ result' = NoCall
            /\ UNCHANGED <<books, reading_status, feedback, codecVars, webVars>>

(***************************************************************************)
(* Filtered search (app/services/search_service.py)                        *)
(*                                                                         *)
(* A query is a record: the predicate on the book row, the ORDER BY        *)
(* attribute, the caller whose rows are outer-joined (NoUser: no join, the   *)
(* relationships are noload), and the two WHERE predicates the filters     *)
(* add ("any": none added, "is_null": IS NULL, else equality with a value).*)
(***************************************************************************)

\* SQL LIKE: '%' any run of characters, '_' any one character, '\' escapes.
RECURSIVE Like(_, _)
Like(s, pat) ==
    IF pat = <<>> THEN s = <<>>
    ELSE IF Head(pat) = 37 THEN
        \E k \in 0..Len(s) : Like(SubSeq(s, k + 1, Len(s)), Tail(pat))
    ELSE IF Head(pat) = 92 /\ Len(pat) >= 2 THEN
        s # <<>> /\ Head(s) = pat[2] /\ Like(Tail(s), SubSeq(pat, 3, Len(pat)))
    ELSE IF Head(pat) = 95 THEN s # <<>> /\ Like(Tail(s), Tail(pat))
    ELSE s # <<>> /\ Head(s) = Head(pat) /\ Like(Tail(s), Tail(pat))

\* column.ilike(pattern): lower(column) LIKE lower(pattern)
ILike(s, pat) == Like(Lower(s), Lower(pat))

\* The ascending order of ORDER BY on a text column: code point by code point.
RECURSIVE TextLeq(_, _)
TextLeq(a, b) ==
    IF a = <<>> THEN TRUE
    ELSE IF b = <<>> THEN FALSE
    ELSE IF Head(a) # Head(b) THEN Head(a) < Head(b)
    ELSE TextLeq(Tail(a), Tail(b))

AttrOf(b, attribute) == IF attribute = "author" THEN b.author ELSE b.title

OrNull(rows) == IF rows = {} THEN {NullRow} ELSE rows

\* _add_user_status_and_feedback_joins: with a caller, the outer joins and
\* contains_eager; without one, noload of the three relationships.
add_user_status_and_feedback_joins(query, user_id) ==
    [query EXCEPT !.joined = user_id]

\* Faulty variant: "none" is compared like any other value.
add_filters_none_as_value(query, status_filter, feedback_filter) ==
    [query EXCEPT
        !.status_pred = IF status_filter # None /\ status_filter # ""
                        THEN status_filter ELSE "any",
        !.feedback_pred = IF feedback_filter # None /\ feedback_filter # ""
                          THEN feedback_filter ELSE "any"]

\* Faulty variant: a filter starts from a fresh query over Book and loses the
\* primary predicate.
add_filters_fresh_query(query, status_filter, feedback_filter) ==
    LET filtered == (status_filter # None /\ status_filter # "")
                    \/ (feedback_filter # None /\ feedback_filter # "")
    IN [query EXCEPT
        !.primary = IF filtered THEN [i \in {x.id : x \in books} |-> TRUE] ELSE @,
        !.status_pred = IF status_filter # None /\ status_filter # ""
                        THEN IF status_filter # "none" THEN status_filter ELSE "is_null"
                        ELSE "any",
        !.feedback_pred = IF feedback_filter # None /\ feedback_filter # ""
                          THEN IF feedback_filter # "none" THEN feedback_filter
                               ELSE "is_null"
                          ELSE "any"]

\* _add_status_and_feedback_filters
add_status_and_feedback_filters(query, status_filter, feedback_filter) ==
    [query EXCEPT
        !.status_pred = IF status_filter # None /\ status_filter # ""
                        THEN IF status_filter # "none" THEN status_filter ELSE "is_null"
                        ELSE "any",
        !.feedback_pred = IF feedback_filter # None /\ feedback_filter # ""
                          THEN IF feedback_filter # "none" THEN feedback_filter
                               ELSE "is_null"
                          ELSE "any"]

\* Faulty variant: the joins match on book_id alone, whoever owns the row.
FromRows_any_user(query, b) ==
    LET u == query.joined
        rs == IF u # NoUser
              THEN OrNull({r \in reading_status : r.book_id = b.id})
              ELSE IF query.status_pred # "any" THEN reading_status ELSE {NullRow}
        fb == IF u # NoUser
              THEN OrNull({r \in feedback : r.book_id = b.id})
              ELSE IF query.feedback_pred # "any" THEN feedback ELSE {NullRow}
        tb == IF u # NoUser
              THEN OrNull({r \in tag_books : r.book_id = b.id})
              ELSE {NullRow}
        TagOf(t) == IF t = NullRow THEN {NullRow}
                    ELSE OrNull({g \in tags : g.id = t.tag_id /\ g.owner_id = u})
    IN { [rs |-> x[1], fb |-> x[2], tb |-> x[3], tag |-> x[4]] :
            x \in { y \in rs \X fb \X tb \X (tags \cup {NullRow}) :
                      y[4] \in TagOf(y[3]) } }

\* The FROM clause for one book row: the joined rows of each table, NullRow
\* standing for an outer join's missing partner.  A table a filter names
\* without a join enters the FROM clause as a cross join.
FromRows(query, b) ==
    LET u == query.joined
        rs == IF u # NoUser
              THEN OrNull({r \in reading_status : r.book_id = b.id
                            /\ (r.user_id = u \/ r.user_id = NoUser)})
              ELSE IF query.status_pred # "any" THEN reading_status ELSE {NullRow}
        fb == IF u # NoUser
              THEN OrNull({r \in feedback : r.book_id = b.id
                            /\ (r.user_id = u \/ r.user_id = NoUser)})
              ELSE IF query.feedback_pred # "any" THEN feedback ELSE {NullRow}
        tb == IF u # NoUser
              THEN OrNull({r \in tag_books : r.book_id = b.id})
              ELSE {NullRow}
        TagOf(t) == IF t = NullRow THEN {NullRow}
                    ELSE OrNull({g \in tags : g.id = t.tag_id /\ g.owner_id = u})
    IN { [rs |-> x[1], fb |-> x[2], tb |-> x[3], tag |-> x[4]] :
            x \in { y \in rs \X fb \X tb \X (tags \cup {NullRow}) :
                      y[4] \in TagOf(y[3]) } }

\* column = value / column IS NULL on a joined row (a NULL row has NULL columns)
ColumnPred(pred, row, column) ==
    IF pred = "any" THEN TRUE
    ELSE IF pred = "is_null" THEN row = NullRow
    ELSE row # NullRow /\ row[column] = pred

Where(query, row) ==
    /\ ColumnPred(query.status_pred, row.rs, "status")
    /\ ColumnPred(query.feedback_pred, row.fb, "feedback")

\* Faulty variant: without noload the relationships load every row of the book.
Entity_default_load(query, b) ==
    LET rows == {row \in FromRows(query, b) : Where(query, row)} IN
    [ id |-> b.id,
      reading_statuses |-> IF query.joined = NoUser
                           THEN {r \in reading_status : r.book_id = b.id}
                           ELSE {row.rs : row \in rows} \ {NullRow},
      feedbacks |-> IF query.joined = NoUser
                    THEN {r \in feedback : r.book_id = b.id}
                    ELSE {row.fb : row \in rows} \ {NullRow},
      tags |-> IF query.joined = NoUser
               THEN {[tag_book |-> t, tag |-> CHOOSE g \in tags : g.id = t.tag_id] :
                        t \in {x \in tag_books : x.book_id = b.id}}
               ELSE {[tag_book |-> row.tb, tag |-> row.tag] :
                        row \in {x \in rows : x.tb # NullRow}} ]

\* The Book entity built from the result rows of one book: contains_eager
\* fills each relationship from the joined rows, noload leaves it empty.
Entity(query, b) ==
    LET rows == {row \in FromRows(query, b) : Where(query, row)} IN
    [ id |-> b.id,
      reading_statuses |-> IF query.joined = NoUser THEN {}
                           ELSE {row.rs : row \in rows} \ {NullRow},
      feedbacks |-> IF query.joined = NoUser THEN {}
                    ELSE {row.fb : row \in rows} \ {NullRow},
      tags |-> IF query.joined = NoUser THEN {}
               ELSE {[tag_book |-> row.tb, tag |-> row.tag] :
                        row \in {x \in rows : x.tb # NullRow}} ]

Matches(query, b) ==
    /\ query.primary[b.id]
    /\ \E row \in FromRows(query, b) : Where(query, row)

IsSortedBy(seq, attribute) ==
    \A i, j \in 1..Len(seq) :
        i < j => TextLeq(AttrOf(CHOOSE b \in books : b.id = seq[i].id, attribute),
                         AttrOf(CHOOSE b \in books : b.id = seq[j].id, attribute))

\* Faulty variant: no ORDER BY; the rows come in any order.
All_unordered(query) ==
    LET found == {Entity(query, b) : b \in {x \in books : Matches(query, x)}}
        n == Cardinality(found)
    IN { seq \in [1..n -> found] : \A i, j \in 1..n : i # j => seq[i] # seq[j] }

\* query.all(): the distinct entities of the rows, in ORDER BY order; rows
\* with equal keys come in any order.
All(query) ==
    LET found == {Entity(query, b) : b \in {x \in books : Matches(query, x)}}
        n == Cardinality(found)
    IN { seq \in [1..n -> found] :
            /\ \A i, j \in 1..n : i # j => seq[i] # seq[j]
            /\ IsSortedBy(seq, query.order_by) }

\* Faulty variant: a prefix match, categories_flat LIKE 'path%'.
categories_flat_startswith(b, categories) ==
    /\ b.categories_flat # NullText
    /\ \E k \in 1..Len(categories) :
          /\ Len(categories[k]) <= Len(b.categories_flat)
          /\ SubSeq(b.categories_flat, 1, Len(categories[k])) = categories[k]

\* Book.categories_flat.in_(categories)
categories_flat_in(b, categories) ==
    /\ b.categories_flat # NullText
    /\ \E k \in 1..Len(categories) : b.categories_flat = categories[k]

\* value = "*" leaves the query unfiltered; otherwise
\* getattr(Book, attribute).ilike(f"%{value}%")
attribute_ilike(b, attribute, value) ==
    value # <<42>> => ILike(AttrOf(b, attribute), <<37>> \o value \o <<37>>)

NewQuery(primary, order_by) ==
    [primary |-> primary, order_by |-> order_by, joined |-> NoUser,
     status_pred |-> "any", feedback_pred |-> "any"]

\* search_by_categories(categories, status_filter, feedback_filter), called
\* with current_user = user_id: the lists it may return.
search_by_categories(categories, status_filter, feedback_filter, user_id) ==
    IF categories = <<>> THEN {<<>>}
    ELSE All(add_status_and_feedback_filters(
                add_user_status_and_feedback_joins(
                    NewQuery([i \in {x.id : x \in books} |->
                                 \E b \in books : b.id = i
                                    /\ categories_flat_in(b, categories)],
                             "title"),
                    user_id),
                status_filter, feedback_filter))

\* _search_by_attribute(attribute, value, status_filter, feedback_filter)
search_by_attribute(attribute, value, status_filter, feedback_filter, user_id) ==
    IF value = <<>> THEN {<<>>}
    ELSE All(add_status_and_feedback_filters(
                add_user_status_and_feedback_joins(
                    NewQuery([i \in {x.id : x \in books} |->
                                 \E b \in books : b.id = i
                                    /\ attribute_ilike(b, attribute, value)],
                             attribute),
                    user_id),
                status_filter, feedback_filter))

search_by_author(author, status_filter, feedback_filter, user_id) ==
    search_by_attribute("author", author, status_filter, feedback_filter, user_id)

search_by_title(title, status_filter, feedback_filter, user_id) ==
    search_by_attribute("title", title, status_filter, feedback_filter, user_id)

(***************************************************************************)
(* Calls of the search functions                                           *)
(***************************************************************************)
\* Search texts: "*", "a", "_", "" ; category lists: [], ["C"], ["C", "F"].
SearchTexts == {<<42>>, <<97>>, <<95>>, <<>>}
CategoryLists == {<<>>, <<<<67>>>>, <<<<67>>, <<70>>>>}
StatusFilters == {None, "none", "read"}
FeedbackFilters == {None, "none", "like"}
\* Who searches: nobody signed in, or user 1.  The two users differ in name
\* only, so the other one acts through the writes alone.
Callers == {NoUser, 1}

SearchByAuthor ==
    /\ result = NoCall
    /\ \E user_id \in Callers, author \in SearchTexts,
       status_filter \in StatusFilters, feedback_filter \in FeedbackFilters :
        /\ \E bks \in search_by_author(author, status_filter, feedback_filter, user_id) :
              result' = [op |-> "search_by_author", user_id |-> user_id,
                         value |-> author, status_filter |-> status_filter,
                         feedback_filter |-> feedback_filter, books |-> bks]
        /\ UNCHANGED <<dbVars, codecVars, webVars>>

SearchByTitle ==
    /\ result = NoCall
    /\ \E user_id \in Callers, title \in SearchTexts,
       status_filter \in StatusFilters, feedback_filter \in FeedbackFilters :
        /\ \E bks \in search_by_title(title, status_filter, feedback_filter, user_id) :
              result' = [op |-> "search_by_title", user_id |-> user_id,
                         value |-> title, status_filter |-> status_filter,
                         feedback_filter |-> feedback_filter, books |-> bks]
        /\ UNCHANGED <<dbVars, codecVars, webVars>>

SearchByCategories ==
    /\ result = NoCall
    /\ \E user_id \in Callers, categories \in CategoryLists,
       status_filter \in StatusFilters, feedback_filter \in FeedbackFilters :
        /\ \E bks \in search_by_categories(categories, status_filter,
                                           feedback_filter, user_id) :
              result' = [op |-> "search_by_categories", user_id |-> user_id,
                         value |-> categories, status_filter |-> status_filter,
                         feedback_filter |-> feedback_filter, books |-> bks]
        /\ UNCHANGED <<dbVars, codecVars, webVars>>

(***************************************************************************)
(* GET /search (app/routes.py)                                             *)
(***************************************************************************)
\* A Python call with positional arguments: more arguments than the function
\* declares parameters raises TypeError before the body runs.
PyCall(params, args, returns) ==
    IF Len(args) > Len(params) THEN {Fail("TypeError")}
    ELSE {Ok(r) : r \in returns}

\* The parameters the search functions declare (search_service.py).
SearchByCategoriesParams == <<"categories", "status_filter", "feedback_filter">>
SearchByAttributeParams == <<"value", "status_filter", "feedback_filter">>

Truthy(text) == text # NullText /\ text # <<>>

\* sorted(bks, key=..., reverse=...): stable; equal keys keep their order,
\* also under reverse.  The rating column is not modelled: every rating is
\* the default, so a sort by rating keeps the order.
RECURSIVE SortedBy(_, _, _)
SortedBy(bks, sort_column, reverse_order) ==
    IF Len(bks) <= 1 \/ sort_column = "rating" THEN bks
    ELSE LET key(e) == AttrOf(CHOOSE b \in books : b.id = e.id, sort_column)
             before(x, y) == IF reverse_order THEN ~TextLeq(key(x), key(y))
                             ELSE ~TextLeq(key(y), key(x))
             rest == SortedBy(Tail(bks), sort_column, reverse_order)
             x == Head(bks)
             k == Cardinality({i \in 1..Len(rest) : before(rest[i], x)})
         IN SubSeq(rest, 1, k) \o <<x>> \o SubSeq(rest, k + 1, Len(rest))

\* _perform_search_base_on_args(req) with current_user = user_id: the set of
\* its outcomes, Ok(list), Ok(None) or the exception raised.
perform_search_base_on_args(args, user_id) ==
    LET tag_filter == [i \in 1..Len(args.tag) |-> Lower(args.tag[i])]
        paths == [i \in 1..Len(args.cat) |-> id_to_fullpath(args.cat[i])]
        found ==
            IF Truthy(args.author) THEN
                PyCall(SearchByAttributeParams,
                       <<args.author, args.status, args.feedback, tag_filter>>,
                       search_by_author(args.author, args.status, args.feedback,
                                        user_id))
            ELSE IF Truthy(args.title) THEN
                PyCall(SearchByAttributeParams,
                       <<args.title, args.status, args.feedback, tag_filter>>,
                       search_by_title(args.title, args.status, args.feedback,
                                       user_id))
            ELSE IF args.cat # <<>> THEN
                IF \E i \in 1..Len(paths) : ~paths[i].ok
                THEN {paths[CHOOSE i \in 1..Len(paths) :
                               ~paths[i].ok /\ \A j \in 1..(i - 1) : paths[j].ok]}
                ELSE PyCall(SearchByCategoriesParams,
                            <<paths, args.status, args.feedback, tag_filter>>,
                            search_by_categories([i \in 1..Len(paths) |-> paths[i].val],
                                                 args.status, args.feedback, user_id))
            ELSE {Ok(None)}
    IN { IF ~r.ok \/ r.val = None \/ args.sortColumn = None \/ args.sortColumn = ""
         THEN r
         ELSE IF args.sortColumn \notin {"title", "author", "rating"} THEN Ok(None)
         ELSE IF args.sortOrder \notin {"asc", "desc"} THEN Ok(None)
         ELSE Ok(SortedBy(r.val, args.sortColumn, args.sortOrder = "desc"))
         : r \in found }

\* A cat token that does not decode: "C" alone is one Base64 character.
BadToken == <<67>>

\* The requests: author "*", title "a", cat the token of "C" or a token that
\* does not decode, or none of them; a tag "X" or none; no sort column, a
\* valid one, an invalid one, or a valid one with an invalid sort order.  A
\* request varies the primary arguments or the tag or the sort arguments.
SearchRequests ==
    { r \in [ author : {NullText, <<42>>}, title : {NullText, <<97>>},
              cat : {<<>>, <<fullpath_to_id(<<67>>).val>>, <<BadToken>>},
              status : {None}, feedback : {None},
              tag : {<<>>, <<<<88>>>>},
              sortColumn : {None, "title", "x"}, sortOrder : {"asc", "up"} ] :
        /\ (r.author # NullText /\ r.title # NullText) => r.cat = <<>>
        /\ r.sortColumn = None => r.sortOrder = "asc"
        /\ r.sortColumn = "x" => r.sortOrder = "asc"
        /\ r.sortColumn # None =>
              /\ r.tag = <<>> /\ r.title = NullText
              /\ r.cat # <<BadToken>>
              /\ (r.author # NullText => r.cat = <<>>) }

\* The response to a request that runs _perform_search_base_on_args: 400
\* when the helper returns None, 200 with the books otherwise; an exception
\* leaves the view as a server error.
SearchResponse(op, user_id, args, r) ==
    [op |-> op, user_id |-> user_id, args |-> args,
     status |-> IF ~r.ok THEN 500 ELSE IF r.val = None THEN 400 ELSE 200,
     error |-> IF r.ok THEN None ELSE r.err,
     books |-> IF r.ok /\ r.val # None THEN r.val ELSE <<>>]

\* search()
Search ==
    /\ result = NoCall
    /\ \E user_id \in Callers, args \in SearchRequests :
        \E r \in perform_search_base_on_args(args, user_id) :
            result' = SearchResponse("search", user_id, args, r)
    /\ UNCHANGED <<dbVars, codecVars, webVars>>

\* _make_csv_response(bks): one row per book; the Tags column reads
\* t.tag.name of every association attached to the book, which raises
\* AttributeError when the association's tag is None.  The cells of a row
\* are read off the entry and are not modelled apart from it.
make_csv_response(bks) ==
    IF \E i \in 1..Len(bks) : \E t \in bks[i].tags : t.tag = NullRow
    THEN Fail("AttributeError")
    ELSE Ok(bks)

\* download()
Download ==
    /\ result = NoCall
    /\ \E user_id \in Callers, args \in SearchRequests :
        \E r \in perform_search_base_on_args(args, user_id) :
            result' = SearchResponse("download", user_id, args,
                                     IF r.ok /\ r.val # None
                                     THEN make_csv_response(r.val) ELSE r)
    /\ UNCHANGED <<dbVars, codecVars, webVars>>

(***************************************************************************)
(* Category tree (app/services/category_service.py)                        *)
(*                                                                         *)
(* The nested dict of _get_category_tree is kept as the sequence of its    *)
(* nodes in the order they were inserted, each node the sequence of labels *)
(* from its root: the keys of a dict keep their insertion order, so the    *)
(* children of a node are the nodes one label longer, in that order.       *)
(***************************************************************************)
\* _SEPARATOR = ' > '
SEPARATOR == <<32, 62, 32>>

\* str.split(sep): cut at each occurrence of sep, leftmost first.
RECURSIVE Split(_, _)
Split(s, sep) ==
    LET at == {i \in 1..(Len(s) - Len(sep) + 1) :
                  SubSeq(s, i, i + Len(sep) - 1) = sep} IN
    IF at = {} THEN <<s>>
    ELSE LET i == CHOOSE k \in at : \A m \in at : k <= m IN
         <<SubSeq(s, 1, i - 1)>> \o Split(SubSeq(s, i + Len(sep), Len(s)), sep)

\* The rows of SELECT DISTINCT ... ORDER BY on a set of values, ascending;
\* NULL is a value of its own and sorts first.
RECURSIVE OrderBy(_)
OrderBy(values) ==
    IF values = {} THEN <<>>
    ELSE LET least == IF NullText \in values THEN NullText
                      ELSE CHOOSE x \in values : \A y \in values : TextLeq(x, y)
         IN <<least>> \o OrderBy(values \ {least})

\* _get_category_list()
get_category_list == OrderBy({b.categories_flat : b \in books})

\* Faulty variant: tree[cat] = {} without the test "cat not in tree", which
\* empties the dict of a key that is already there.
RECURSIVE tree_add_categories_reset(_, _, _, _)
tree_add_categories_reset(cat, prefix, tree, sub_categories) ==
    LET path == Append(prefix, cat)
        added == IF \E i \in 1..Len(tree) : tree[i] = path
                 THEN SelectSeq(tree, LAMBDA q : ~(Len(q) > Len(path)
                                                   /\ SubSeq(q, 1, Len(path)) = path))
                 ELSE Append(tree, path)
    IN IF sub_categories # <<>>
       THEN tree_add_categories_reset(Head(sub_categories), path, added,
                                      Tail(sub_categories))
       ELSE added

\* Faulty variant: a new key is put before the keys already there.
RECURSIVE tree_add_categories_first(_, _, _, _)
tree_add_categories_first(cat, prefix, tree, sub_categories) ==
    LET path == Append(prefix, cat)
        added == IF \E i \in 1..Len(tree) : tree[i] = path THEN tree
                 ELSE <<path>> \o tree
    IN IF sub_categories # <<>>
       THEN tree_add_categories_first(Head(sub_categories), path, added,
                                      Tail(sub_categories))
       ELSE added

\* _get_category_tree._add_categories(cat, tree, sub_categories); prefix is
\* the path of the dict that tree is.
RECURSIVE tree_add_categories(_, _, _, _)
tree_add_categories(cat, prefix, tree, sub_categories) ==
    LET path == Append(prefix, cat)
        added == IF \E i \in 1..Len(tree) : tree[i] = path THEN tree
                 ELSE Append(tree, path)
    IN IF sub_categories # <<>>
       THEN tree_add_categories(Head(sub_categories), path, added, Tail(sub_categories))
       ELSE added

\* The loop of _get_category_tree over the categories left
RECURSIVE tree_of_categories(_, _)
tree_of_categories(categories, category_tree) ==
    IF categories = <<>> THEN Ok(category_tree)
    ELSE IF Head(categories) = NullText THEN Fail("AttributeError")
    ELSE LET parts == Split(Head(categories), SEPARATOR) IN
         tree_of_categories(Tail(categories),
             tree_add_categories(Head(parts), <<>>, category_tree, Tail(parts)))

\* _get_category_tree()
get_category_tree == tree_of_categories(get_category_list, <<>>)

\* The keys of the dict at path, in order: children[child] for child in children
ChildrenOf(tree, path) ==
    SelectSeq(tree, LAMBDA q : Len(q) = Len(path) + 1
                               /\ SubSeq(q, 1, Len(path)) = path)

\* get_category_bs_tree._add_categories(cat, context, tree, children): the
\* records appended, outermost first; at is the place of the record in the
\* nested lists (<<2, 1>>: first of the nodes of the second root).
RECURSIVE bs_add_categories(_, _, _, _)
bs_add_categories(path, context, at, tree) ==
    LET cat == path[Len(path)]
        node_fullpath == IF context # <<>> THEN context \o SEPARATOR \o cat ELSE cat
        children == ChildrenOf(tree, path)
        node == [text |-> cat, checked |-> FALSE, fullpath |-> node_fullpath,
                 id |-> fullpath_to_id(node_fullpath).val,
                 has_nodes |-> children # <<>>, at |-> at]
    IN <<node>> \o Flatten([i \in 1..Len(children) |->
                    bs_add_categories(children[i], node_fullpath, Append(at, i), tree)])

\* get_category_bs_tree()
get_category_bs_tree ==
    LET categories == get_category_tree IN
    IF ~categories.ok THEN categories
    ELSE LET roots == ChildrenOf(categories.val, <<>>) IN
         Ok(Flatten([i \in 1..Len(roots) |->
                bs_add_categories(roots[i], <<>>, <<i>>, categories.val)]))

(***************************************************************************)
(* Requests served side by side (app/services/book_service.py,             *)
(* app/services/tag_service.py)                                            *)
(*                                                                         *)
(* Each worker has its own database session.  A service function reads     *)
(* with a SELECT and writes with a later statement and commit; between the *)
(* two the other worker may read and write.  pending[w] is what worker w   *)
(* has read so far.                                                        *)
(***************************************************************************)
\* The rows a write leaves: `existing` is the row the SELECT found (NullRow:
\* none), field the column written, id the next autoincrement value.  A
\* DELETE or UPDATE ... WHERE id = existing.id of a row that is gone changes
\* nothing.
rows_after_write(rows, field, req, id) ==
    IF req.value = "none" THEN
        IF req.existing # NullRow
        THEN {r \in rows : r.id # req.existing.id} ELSE rows
    ELSE IF req.existing # NullRow THEN
        {IF r.id = req.existing.id THEN [r EXCEPT ![field] = req.value] ELSE r
         : r \in rows}
    ELSE rows \cup {[id |-> id, user_id |-> req.user_id, book_id |-> req.book_id]
                      @@ (field :> req.value)}

\* Whether the write is an INSERT
write_inserts(req) == req.value # "none" /\ req.existing = NullRow

\* set_book_status, first half: the SELECT of the existing row
StatusSelect ==
    \E w \in Workers, book_id \in {1}, user_id \in {1},
       status \in {"read", "up_next", "none"} :
        /\ pending[w] = Idle
        /\ \E existing_status \in FirstOf({r \in reading_status :
                                 r.user_id = user_id /\ r.book_id = book_id}) :
             pending' = [pending EXCEPT ![w] =
                           [pc |-> "set_book_status", user_id |-> user_id,
                            book_id |-> book_id, value |-> status,
                            existing |-> existing_status]]
        /\ UNCHANGED <<dbVars, codecVars, loginVars, sessionVars, result>>

\* set_book_status, second half: DELETE, UPDATE or INSERT, and the commit
StatusWrite ==
    \E w \in Workers :
        /\ pending[w].pc = "set_book_status"
        /\ write_inserts(pending[w]) => Inserted < MaxRows
        /\ reading_status' = rows_after_write(reading_status, "status", pending[w],
                                              next_id.reading_status)
        /\ next_id' = IF write_inserts(pending[w])
                      THEN [next_id EXCEPT !.reading_status = @ + 1] ELSE next_id
        /\ pending' = [pending EXCEPT ![w] = Idle]
        /\ UNCHANGED <<books, feedback, tags, tag_books, codecVars, loginVars,
                       sessionVars, result>>

\* set_book_feedback, first half
FeedbackSelect ==
    \E w \in Workers, book_id \in {1}, user_id \in {1},
       fb \in {"like", "dislike", "none"} :
        /\ pending[w] = Idle
        /\ \E existing_feedback \in FirstOf({r \in feedback :
                                 r.user_id = user_id /\ r.book_id = book_id}) :
             pending' = [pending EXCEPT ![w] =
                           [pc |-> "set_book_feedback", user_id |-> user_id,
                            book_id |-> book_id, value |-> fb,
                            existing |-> existing_feedback]]
        /\ UNCHANGED <<dbVars, codecVars, loginVars, sessionVars, result>>

\* set_book_feedback, second half
FeedbackWrite ==
    \E w \in Workers :
        /\ pending[w].pc = "set_book_feedback"
        /\ write_inserts(pending[w]) => Inserted < MaxRows
        /\ feedback' = rows_after_write(feedback, "feedback", pending[w],
                                        next_id.feedback)
        /\ next_id' = IF write_inserts(pending[w])
                      THEN [next_id EXCEPT !.feedback = @ + 1] ELSE next_id
        /\ pending' = [pending EXCEPT ![w] = Idle]
        /\ UNCHANGED <<books, reading_status, tags, tag_books, codecVars, loginVars,
                       sessionVars, result>>

\* Names a /add_tag request may carry: "x", "Y", and "!", which the pattern
\* of get_or_create_tag rejects.
TagRequestNames == TagNames \cup {<<33>>}

\* re.match(r'^[a-zA-Z0-9\s\-]+$', tag_name) and the length test of
\* get_or_create_tag; bleach.clean leaves a text without markup as it is.
ValidTagName(tag_name) ==
    /\ tag_name # <<>>
    /\ Len(tag_name) <= 32
    /\ \A i \in 1..Len(tag_name) :
          \/ tag_name[i] \in 97..122
          \/ tag_name[i] \in 65..90
          \/ tag_name[i] \in 48..57
          \/ tag_name[i] \in {32, 9, 10, 11, 12, 13, 45}

\* Faulty variant: the table has no unique constraint.
no_unique_constraint(rows, a, b, row) == FALSE

\* UniqueConstraint(a, b): whether the INSERT of row raises IntegrityError
unique_violated(rows, a, b, row) ==
    \E r \in rows : r[a] = row[a] /\ r[b] = row[b]

\* What the SELECTs of a request read.  A request runs in one transaction
\* until it commits, and the transaction reads the tables as they were at
\* its first SELECT (MySQL's default isolation level); p.snapshot is that
\* reading, NullRow when the transaction has not read yet.
Snapshot(p) ==
    IF p.snapshot = NullRow THEN [tags |-> tags, tag_books |-> tag_books]
    ELSE p.snapshot

\* get_tags_and_colors(book_id, user_id) read from seen: the names of the
\* user's tags on the book in TagBook.id order.  The color, a column written
\* once when the tag is inserted, is left out.
get_tags_and_colors(book_id, user_id, seen) ==
    LET rows == {tb \in seen.tag_books :
                    /\ tb.book_id = book_id
                    /\ \E t \in seen.tags : t.id = tb.tag_id /\ t.owner_id = user_id}
        n == Cardinality(rows)
        ordered == CHOOSE seq \in [1..n -> rows] :
                      \A i, j \in 1..n : i < j => seq[i].id < seq[j].id
    IN [i \in 1..n |-> (CHOOSE t \in seen.tags : t.id = ordered[i].tag_id).name]

\* The response of /add_tag
add_tag_response(req, code, new_set_of_tags) ==
    [op |-> "add_tag", user_id |-> req.user_id, tag |-> req.tag,
     book_id |-> req.book_id, status |-> code, tags |-> new_set_of_tags]

\* POST /add_tag up to the SELECT of get_or_create_tag: @auth_required,
\* _check_for_required_tag_and_book, the validation of the name.
AddTagBegin ==
    \E w \in Workers, user_id \in Users \cup {NoUser}, book_id \in {1, 3},
       tag \in TagRequestNames :
        LET req == [user_id |-> user_id, tag |-> tag, book_id |-> book_id]
            tag_name == Lower(tag)
            found == {t \in tags : t.owner_id = user_id /\ t.name = tag_name}
        IN
        /\ pending[w] = Idle
        /\ IF ~auth_required(user_id)
           THEN /\ result' = add_tag_response(req, 302, <<>>)
                /\ UNCHANGED pending
           ELSE IF ~\E b \in books : b.id = book_id
           THEN /\ result' = add_tag_response(req, 400, <<>>)
                /\ UNCHANGED pending
           ELSE IF ~ValidTagName(tag_name)
           THEN /\ result' = add_tag_response(req, 500, <<>>)
                /\ UNCHANGED pending
           ELSE /\ pending' = [pending EXCEPT ![w] =
                     [pc |-> IF found = {} THEN "get_or_create_tag" ELSE "tag_book",
                      req |-> req, tag_name |-> tag_name,
                      tag_id |-> IF found = {} THEN 0
                                 ELSE (CHOOSE t \in found : TRUE).id,
                      snapshot |-> [tags |-> tags, tag_books |-> tag_books]]]
                /\ UNCHANGED result
        /\ UNCHANGED <<dbVars, codecVars, loginVars, sessionVars>>

\* get_or_create_tag, second half: the INSERT of the tag and the commit
AddTagInsertTag ==
    \E w \in Workers :
        LET tag == [id |-> next_id.tags, name |-> pending[w].tag_name,
                    owner_id |-> pending[w].req.user_id]
        IN
        /\ pending[w].pc = "get_or_create_tag"
        /\ IF unique_violated(tags, "name", "owner_id", tag)
           THEN /\ result' = add_tag_response(pending[w].req, 500, <<>>)
                /\ pending' = [pending EXCEPT ![w] = Idle]
                /\ UNCHANGED <<tags, next_id>>
           ELSE /\ Inserted < MaxRows
                /\ tags' = tags \cup {tag}
                /\ next_id' = [next_id EXCEPT !.tags = @ + 1]
                /\ pending' = [pending EXCEPT ![w] =
                                 [@ EXCEPT !.pc = "tag_book", !.tag_id = tag.id,
                                           !.snapshot = NullRow]]
                /\ UNCHANGED result
        /\ UNCHANGED <<books, reading_status, feedback, tag_books, codecVars,
                       loginVars, sessionVars>>

\* tag_book, first half: the SELECT of the association
AddTagSelectBook ==
    \E w \in Workers :
        /\ pending[w].pc = "tag_book"
        /\ pending' = [pending EXCEPT ![w] =
              [@ EXCEPT !.snapshot = Snapshot(pending[w]),
                        !.pc =
                 IF \E tb \in Snapshot(pending[w]).tag_books :
                        /\ tb.tag_id = pending[w].tag_id
                        /\ tb.book_id = pending[w].req.book_id
                 THEN "get_tags_and_colors" ELSE "insert_tag_book"]]
        /\ UNCHANGED <<dbVars, codecVars, loginVars, sessionVars, result>>

\* tag_book, the INSERT of the association and the commit
AddTagInsertTagBook ==
    \E w \in Workers :
        LET book_tag == [id |-> next_id.tag_books, tag_id |-> pending[w].tag_id,
                         book_id |-> pending[w].req.book_id]
        IN
        /\ pending[w].pc = "insert_tag_book"
        /\ IF unique_violated(tag_books, "tag_id", "book_id", book_tag)
           THEN /\ result' = add_tag_response(pending[w].req, 500, <<>>)
                /\ pending' = [pending EXCEPT ![w] = Idle]
                /\ UNCHANGED <<tag_books, next_id>>
           ELSE /\ Inserted < MaxRows
                /\ tag_books' = tag_books \cup {book_tag}
                /\ next_id' = [next_id EXCEPT !.tag_books = @ + 1]
                /\ pending' = [pending EXCEPT ![w] =
                                 [@ EXCEPT !.pc = "get_tags_and_colors",
                                           !.snapshot = NullRow]]
                /\ UNCHANGED result
        /\ UNCHANGED <<books, reading_status, feedback, tags, codecVars,
                       loginVars, sessionVars>>

\* tag_book, the end: the list of get_tags_and_colors in the response
AddTagRespond ==
    \E w \in Workers :
        /\ pending[w].pc = "get_tags_and_colors"
        /\ result' = add_tag_response(pending[w].req, 200,
                        get_tags_and_colors(pending[w].req.book_id,
                                            pending[w].req.user_id,
                                            Snapshot(pending[w])))
        /\ pending' = [pending EXCEPT ![w] = Idle]
        /\ UNCHANGED <<dbVars, codecVars, loginVars, sessionVars>>

(***************************************************************************)
(* The user loader and its cache (app/security/user_session_cache.py)      *)
(***************************************************************************)
\* The users: id 1 with fs_uniquifier 11, id 2 with fs_uniquifier 12.
Uniquifiers == {11, 12}
UserOf(fs_uniquifier, active) ==
    [id |-> fs_uniquifier - 10, fs_uniquifier |-> fs_uniquifier, active |-> active]

\* An AnonymousUserMixin, the user of a request that is not signed in
AnonymousUser == [id |-> 0, fs_uniquifier |-> 0, active |-> FALSE]

\* The idle values of the variables of the web layer
NoRequest == [stage |-> "none"]
NoEntry == [key |-> <<"none", 0>>]
EmptySession ==
    [user_id |-> 0, other |-> FALSE, permanent |-> FALSE,
     last_activity |-> -1, user_ip |-> 0]

\* _cache_key_from_string(fs_uniquifier)
cache_key_from_string(fs_uniquifier) == <<"user_", fs_uniquifier>>

\* Faulty variant: the key is made of the user's id.
cache_key_from_user_id(user) ==
    IF user = AnonymousUser THEN NoEntry.key ELSE cache_key_from_string(user.id)

\* _cache_key_from_user(user); None for an anonymous user
cache_key_from_user(user) ==
    IF user = AnonymousUser THEN NoEntry.key
    ELSE cache_key_from_string(user.fs_uniquifier)

\* cache.get(key): the user stored under the key, NullRow (None) if none
cache_get(key) ==
    LET hit == {e \in user_cache : e.key = key} IN
    IF hit = {} THEN NullRow ELSE (CHOOSE e \in hit : TRUE).user

\* _load_user_from_datastore(user_id)
load_user_from_datastore(user_id) ==
    IF user_store[user_id] = "active" THEN UserOf(user_id, TRUE) ELSE NullRow

\* custom_user_loader(user_id)
CustomUserLoader ==
    /\ result = NoCall
    /\ \E user_id \in Uniquifiers :
        LET cached == cache_get(cache_key_from_string(user_id))
            user == IF cached = NullRow THEN load_user_from_datastore(user_id)
                    ELSE cached
        IN
        /\ user_cache' = IF cached = NullRow /\ user # NullRow
                         THEN user_cache \cup
                                {[key |-> cache_key_from_string(user_id), user |-> user]}
                         ELSE user_cache
        /\ result' = [op |-> "custom_user_loader", user_id |-> user_id,
                      returns |-> user]
    /\ UNCHANGED <<dbVars, codecVars, workerVars, sessionVars, user_store>>

\* on_logout(_sender, user): the signal user_logged_out carries the user who
\* was signed in, as the datastore or the cache gave it; cache.delete says
\* whether the key was there.
OnLogout ==
    /\ result = NoCall
    /\ \E fs_uniquifier \in Uniquifiers, active \in BOOLEAN :
        LET user == UserOf(fs_uniquifier, active)
            key == cache_key_from_user(user)
        IN
        /\ user_cache' = {e \in user_cache : e.key # key}
        /\ result' = [op |-> "on_logout", user_id |-> fs_uniquifier,
                      returns |-> \E e \in user_cache : e.key = key]
    /\ UNCHANGED <<dbVars, codecVars, workerVars, sessionVars, user_store>>

\* The administrator activates, deactivates or deletes a user (UserModelView).
ChangeUser ==
    /\ \E fs_uniquifier \in Uniquifiers, state \in {"active", "inactive", "absent"} :
        /\ user_store[fs_uniquifier] # state
        /\ user_store' = [user_store EXCEPT ![fs_uniquifier] = state]
    /\ UNCHANGED <<dbVars, codecVars, workerVars, sessionVars, user_cache, result>>

\* An entry of the cache times out (CACHE_DEFAULT_TIMEOUT) or is evicted.
CacheExpire ==
    /\ \E e \in user_cache : user_cache' = user_cache \ {e}
    /\ UNCHANGED <<dbVars, codecVars, workerVars, sessionVars, user_store, result>>

(***************************************************************************)
(* The before_request hooks on the session (app/helpers/globals.py)        *)
(*                                                                         *)
(* session is the content of the client's session cookie between requests  *)
(* and the session object while a request runs; a key that is not set is   *)
(* 0, FALSE or -1.  request.arrived is the session as the request brought   *)
(* it.                                                                     *)
(***************************************************************************)
THIRTY_MINUTES_IN_SECONDS == 1800

\* The values time.time() takes, and the addresses requests come from
Times == {0, 1, 1800, 1801, 1802, 3602}
Addresses == {1, 2}

\* `if not session`: no key is set
IsEmptySession(s) == s = EmptySession

\* session.clear()
session_clear(s) == EmptySession

\* Faulty variant: the session is cleared from a gap of 1800 seconds on.
session_timeout_at_30(s, current_time) ==
    IF IsEmptySession(s) THEN s
    ELSE LET kept == IF s.last_activity # -1
                        /\ current_time - s.last_activity >= THIRTY_MINUTES_IN_SECONDS
                     THEN session_clear(s) ELSE s
         IN [kept EXCEPT !.last_activity = current_time]

\* check_session_timeout(): the session it leaves
session_timeout(s, current_time) ==
    IF IsEmptySession(s) THEN s
    ELSE LET kept == IF s.last_activity # -1
                        /\ current_time - s.last_activity > THIRTY_MINUTES_IN_SECONDS
                     THEN session_clear(s) ELSE s
         IN [kept EXCEPT !.last_activity = current_time]

\* Faulty variant: the address is stored only when none was stored.
ip_binding_first_address(s, remote_addr) ==
    IF IsEmptySession(s) THEN s
    ELSE IF s.user_ip # 0 THEN s
    ELSE [s EXCEPT !.user_ip = remote_addr]

\* check_ip_binding(): the session it leaves
ip_binding(s, remote_addr) ==
    IF IsEmptySession(s) THEN s
    ELSE LET kept == IF s.user_ip # 0 /\ s.user_ip # remote_addr
                     THEN session_clear(s) ELSE s
         IN [kept EXCEPT !.user_ip = remote_addr]

\* time.time() moves on
Tick ==
    /\ \E t \in Times : t > now /\ now' = t
    /\ UNCHANGED <<dbVars, codecVars, workerVars, loginVars, result, session, request>>

\* A request arrives from remote_addr with the client's session.
BeginRequest ==
    /\ request = NoRequest
    /\ \E remote_addr \in Addresses :
         request' = [stage |-> "before_request", remote_addr |-> remote_addr,
                     arrived |-> session]
    /\ UNCHANGED <<dbVars, codecVars, workerVars, loginVars, result, session, now>>

\* before_request(): sliding sessions
BeforeRequest ==
    /\ request.stage = "before_request"
    /\ session' = IF ~IsEmptySession(session)
                  THEN [session EXCEPT !.permanent = TRUE] ELSE session
    /\ request' = [request EXCEPT !.stage = "check_session_timeout"]
    /\ UNCHANGED <<dbVars, codecVars, workerVars, loginVars, result, now>>

CheckSessionTimeout ==
    /\ request.stage = "check_session_timeout"
    /\ session' = session_timeout(session, now)
    /\ request' = [request EXCEPT !.stage = "check_ip_binding"]
    /\ UNCHANGED <<dbVars, codecVars, workerVars, loginVars, result, now>>

CheckIpBinding ==
    /\ request.stage = "check_ip_binding"
    /\ session' = ip_binding(session, request.remote_addr)
    /\ request' = [request EXCEPT !.stage = "view"]
    /\ UNCHANGED <<dbVars, codecVars, workerVars, loginVars, result, now>>

\* The view runs: it signs a user in, signs the user out, stores another key
\* (a flashed message, the CSRF token) or leaves the session alone; the
\* session goes back to the client.
View ==
    /\ request.stage = "view"
    /\ \/ \E user_id \in {1, 2} : session' = [session EXCEPT !.user_id = user_id]
       \/ session' = [session EXCEPT !.user_id = 0]
       \/ session' = [session EXCEPT !.other = TRUE]
       \/ session' = session
    /\ request' = NoRequest
    /\ UNCHANGED <<dbVars, codecVars, workerVars, loginVars, result, now>>

\* The client loses the cookie: it ran out (PERMANENT_SESSION_LIFETIME) or
\* was deleted.
DropCookie ==
    /\ request = NoRequest
    /\ ~IsEmptySession(session)
    /\ session' = EmptySession
    /\ UNCHANGED <<dbVars, codecVars, workerVars, loginVars, result, now, request>>

(***************************************************************************)
(* Specifications                                                          *)
(***************************************************************************)
Unset == [unset |-> TRUE]

InitStorage ==
    /\ reading_status = {} /\ feedback = {} /\ tags = {} /\ tag_books = {}
    /\ next_id = [reading_status |-> 1, feedback |-> 1, tags |-> 1, tag_books |-> 1,
                  books |-> 3]
    /\ result = NoCall
    /\ pending = [w \in Workers |-> Idle]
    /\ user_store = [u \in Uniquifiers |-> "active"]
    /\ user_cache = {}
    /\ session = EmptySession /\ now = 0 /\ request = NoRequest

InitCodecIdle == fullpath = <<>> /\ token = Unset /\ decoded = Unset

\* The catalog is one of Catalogs; the per-user tables start empty.
Init ==
    /\ books \in Catalogs
    /\ InitStorage
    /\ InitCodecIdle

\* The response is handed to the client; the worker takes the next request.
Respond ==
    /\ result # NoCall
    /\ result' = NoCall
    /\ UNCHANGED <<dbVars, codecVars, webVars>>

Next ==
    \/ ChangeStatus
    \/ ChangeFeedback
    \/ AddTag
    \/ SearchByAuthor
    \/ SearchByTitle
    \/ SearchByCategories
    \/ Search
    \/ Download
    \/ Details
    \/ Respond

Spec == Init /\ [][Next]_vars

\* The catalog routes with the status and feedback routes: who may write.
NextAccess ==
    \/ AddBook
    \/ EditBook
    \/ DeleteBook
    \/ ChangeStatus
    \/ ChangeFeedback
    \/ Respond

SpecAccess == Init /\ [][NextAccess]_vars

\* The user loader, the logout signal and the administration of users.
NextLogin ==
    \/ CustomUserLoader
    \/ OnLogout
    \/ ChangeUser
    \/ CacheExpire
    \/ Respond

SpecLogin == Init /\ [][NextLogin]_vars

\* The requests of one client, their hooks and the clock.
NextSession ==
    \/ Tick
    \/ BeginRequest
    \/ BeforeRequest
    \/ CheckSessionTimeout
    \/ CheckIpBinding
    \/ View
    \/ DropCookie

SpecSession == Init /\ [][NextSession]_vars

\* Two workers serve /change_status and /change_feedback side by side.
NextStatusWorkers ==
    \/ StatusSelect
    \/ StatusWrite
    \/ FeedbackSelect
    \/ FeedbackWrite

SpecStatusWorkers == Init /\ [][NextStatusWorkers]_vars

\* Two workers serve /add_tag side by side.
NextTagWorkers ==
    \/ AddTagBegin
    \/ AddTagInsertTag
    \/ AddTagSelectBook
    \/ AddTagInsertTagBook
    \/ AddTagRespond

SpecTagWorkers == Init /\ [][NextTagWorkers]_vars

\* The codec alone: a string is encoded, the token is decoded.
Strings == UNION {[1..n -> CodePoints] : n \in 0..MaxLen}

InitCodec ==
    /\ books = {}
    /\ InitStorage
    /\ fullpath \in Strings
    /\ token = Unset
    /\ decoded = Unset

Encode ==
    /\ token = Unset
    /\ token' = fullpath_to_id(fullpath)
    /\ UNCHANGED <<dbVars, webVars, result, fullpath, decoded>>

Decode ==
    /\ token # Unset
    /\ token.ok
    /\ decoded = Unset
    /\ decoded' = id_to_fullpath(token.val)
    /\ UNCHANGED <<dbVars, webVars, result, fullpath, token>>

NextCodec == Encode \/ Decode

SpecCodec == InitCodec /\ [][NextCodec]_vars

\* The codec on any input: a string that may hold a lone surrogate
\* (U+D800) is encoded, or a token that no encoding produced is decoded.
\* Token characters: 'Q', 'w', '_', '*', '!' and U+00E9.
TokenLen == 5         \* longest token handed to id_to_fullpath
TokenChars == {81, 119, 95, 42, 33, 233}
Tokens == UNION {[1..n -> TokenChars] : n \in 0..TokenLen}
AnyStrings == UNION {[1..n -> CodePoints \cup {55296}] : n \in 0..MaxLen}

InitCodecAny ==
    /\ books = {}
    /\ InitStorage
    /\ decoded = Unset
    /\ \/ fullpath \in AnyStrings /\ token = Unset
       \/ fullpath = <<>> /\ token \in {Ok(t) : t \in Tokens}

SpecCodecAny == InitCodecAny /\ [][NextCodec]_vars

\* The category functions on a catalog of up to MaxBooks books whose
\* categories are drawn from "A", "B", "A > A", "A > B", "B > A",
\* "A > B > A", " > B" and NULL.
MaxBooks == 3         \* books in the catalog the tree is built from
CategoryPool ==
    { <<65>>, <<66>>, <<65>> \o SEPARATOR \o <<65>>, <<65>> \o SEPARATOR \o <<66>>,
      <<66>> \o SEPARATOR \o <<65>>,
      <<65>> \o SEPARATOR \o <<66>> \o SEPARATOR \o <<65>>,
      SEPARATOR \o <<66>>, NullText }

TreeCatalogs ==
    UNION { { {Book(i, <<98>>, <<97>>, f[i]) : i \in 1..n} : f \in [1..n -> CategoryPool] }
            : n \in 0..MaxBooks }

InitTree ==
    /\ books \in TreeCatalogs
    /\ InitStorage
    /\ InitCodecIdle

GetCategoryList ==
    /\ result = NoCall
    /\ result' = [op |-> "_get_category_list", returns |-> Ok(get_category_list)]
    /\ UNCHANGED <<dbVars, codecVars, webVars>>

GetCategoryTree ==
    /\ result = NoCall
    /\ result' = [op |-> "_get_category_tree", returns |-> get_category_tree]
    /\ UNCHANGED <<dbVars, codecVars, webVars>>

GetCategoryBsTree ==
    /\ result = NoCall
    /\ result' = [op |-> "get_category_bs_tree", returns |-> get_category_bs_tree]
    /\ UNCHANGED <<dbVars, codecVars, webVars>>

NextTree == GetCategoryList \/ GetCategoryTree \/ GetCategoryBsTree \/ Respond

SpecTree == InitTree /\ [][NextTree]_vars

(***************************************************************************)
(* Properties                                                              *)
(***************************************************************************)
SearchOps == {"search_by_author", "search_by_title", "search_by_categories"}
IsSearch == result.op \in SearchOps
Unfiltered == result.status_filter = None /\ result.feedback_filter = None
Returned == {result.books[i] : i \in 1..Len(result.books)}
ReturnedIds == {e.id : e \in Returned}
BookOf(i) == CHOOSE b \in books : b.id = i

\* The ids the call of result returns when made by user_id with no filter.
PrimaryIds(user_id) ==
    LET lists == IF result.op = "search_by_author"
                 THEN search_by_author(result.value, None, None, user_id)
                 ELSE IF result.op = "search_by_title"
                 THEN search_by_title(result.value, None, None, user_id)
                 ELSE search_by_categories(result.value, None, None, user_id)
        bks == CHOOSE l \in lists : TRUE
    IN {bks[i].id : i \in 1..Len(bks)}

\* C1: decoding the token of any string gives the string back:
\* id_to_fullpath(_fullpath_to_id(s)) = s.
C1_RoundTrip ==
    /\ token # Unset => token.ok
    /\ decoded # Unset => decoded = Ok(fullpath)

C1_Witness ==
    /\ decoded # Unset
    /\ Len(fullpath) >= 2
    /\ \E i \in 1..Len(token.val) : token.val[i] = 95
    /\ \E i \in 1..Len(token.val) : token.val[i] = 42
    /\ \E i \in 1..Len(fullpath) : fullpath[i] > 127

\* C2: search_by_categories(paths) returns exactly the books whose
\* categories_flat equals one of the paths; a book whose category only
\* starts with a path is not returned.
C2_ExactCategory ==
    (IsSearch /\ result.op = "search_by_categories" /\ Unfiltered) =>
        /\ ReturnedIds = {b.id : b \in {x \in books :
                              \E k \in 1..Len(result.value) :
                                  x.categories_flat = result.value[k]}}
        /\ Len(result.books) = Cardinality(ReturnedIds)

C2_Witness ==
    /\ IsSearch /\ result.op = "search_by_categories" /\ Unfiltered
    /\ result.value = <<<<67>>>>
    /\ \E b \in books : b.categories_flat = <<67, 32, 62, 32, 65>>
                        /\ b.id \notin ReturnedIds
    /\ ReturnedIds # {}

HasStatus(user_id, i, v) ==
    \E r \in reading_status : r.user_id = user_id /\ r.book_id = i /\ r.status = v
HasAnyStatus(user_id, i) ==
    \E r \in reading_status : r.user_id = user_id /\ r.book_id = i
HasFeedback(user_id, i, v) ==
    \E r \in feedback : r.user_id = user_id /\ r.book_id = i /\ r.feedback = v
HasAnyFeedback(user_id, i) ==
    \E r \in feedback : r.user_id = user_id /\ r.book_id = i

StatusAdmits(user_id, i, status_filter) ==
    IF status_filter = None THEN TRUE
    ELSE IF status_filter = "none" THEN ~HasAnyStatus(user_id, i)
    ELSE HasStatus(user_id, i, status_filter)
FeedbackAdmits(user_id, i, feedback_filter) ==
    IF feedback_filter = None THEN TRUE
    ELSE IF feedback_filter = "none" THEN ~HasAnyFeedback(user_id, i)
    ELSE HasFeedback(user_id, i, feedback_filter)

\* C3: for an authenticated caller X, status_filter "none" keeps exactly
\* the primary matches X has no status for, any other value exactly those
\* whose status recorded by X equals it; feedback_filter likewise.
C3_FilterExact ==
    (IsSearch /\ result.user_id # NoUser) =>
        ReturnedIds = {i \in PrimaryIds(result.user_id) :
                          /\ StatusAdmits(result.user_id, i, result.status_filter)
                          /\ FeedbackAdmits(result.user_id, i, result.feedback_filter)}

C3_Witness ==
    /\ IsSearch /\ result.user_id = 1
    /\ result.status_filter = "none" /\ result.feedback_filter = None
    /\ HasStatus(1, 1, "read") /\ HasAnyStatus(2, 2)
    /\ PrimaryIds(1) = {1, 2}
    /\ ReturnedIds = {2}

\* C4: with no authenticated caller, no returned entry carries status,
\* feedback or tag data, whatever the tables hold.
C4_NoCallerIsolation ==
    (IsSearch /\ result.user_id = NoUser) =>
        \A e \in Returned :
            e.reading_statuses = {} /\ e.feedbacks = {} /\ e.tags = {}

C4_Witness ==
    /\ IsSearch /\ result.user_id = NoUser
    /\ \E e \in Returned :
          /\ \E r \in reading_status : r.book_id = e.id
          /\ \E r \in feedback : r.book_id = e.id

\* C5: for an authenticated caller X, the status and feedback attached to
\* a returned entry are rows of X alone, and with no filter an entry X has
\* no row for is returned all the same, with nothing attached.
C5_OwnRowsOnly ==
    (IsSearch /\ result.user_id # NoUser) =>
        /\ \A e \in Returned :
              /\ e.reading_statuses =
                    {r \in reading_status : r.user_id = result.user_id
                                            /\ r.book_id = e.id
                                            /\ (result.status_filter \notin {None, "none"}
                                                  => r.status = result.status_filter)}
              /\ e.feedbacks =
                    {r \in feedback : r.user_id = result.user_id
                                      /\ r.book_id = e.id
                                      /\ (result.feedback_filter \notin {None, "none"}
                                            => r.feedback = result.feedback_filter)}
        /\ Unfiltered => ReturnedIds = PrimaryIds(NoUser)

C5_Witness ==
    /\ IsSearch /\ result.user_id = 1 /\ Unfiltered
    /\ \E e \in Returned :
          /\ e.reading_statuses # {}
          /\ \E r \in reading_status : r.book_id = e.id /\ r.user_id = 2
    /\ \E e \in Returned : e.reading_statuses = {} /\ ~HasAnyStatus(1, e.id)

\* C6: for an authenticated caller X, every tag association attached to a
\* returned entry has a tag, and the tag is owned by X.
C6_OwnTagsOnly ==
    (IsSearch /\ result.user_id # NoUser) =>
        \A e \in Returned : \A a \in e.tags :
            /\ a.tag # NullRow
            /\ a.tag.owner_id = result.user_id
            /\ \E g \in tags : g.id = a.tag_book.tag_id
                               /\ g.owner_id = result.user_id

\* C8: search_by_author("*") and search_by_title("*") with no filter return
\* every book once, in ascending order of the searched attribute, for any
\* caller.
C8_Wildcard ==
    (IsSearch /\ result.op # "search_by_categories" /\ result.value = <<42>>
       /\ Unfiltered) =>
        /\ ReturnedIds = {b.id : b \in books}
        /\ Len(result.books) = Cardinality(books)
        /\ \A i, j \in 1..Len(result.books) :
              i < j => TextLeq(AttrOf(BookOf(result.books[i].id),
                                      IF result.op = "search_by_author"
                                      THEN "author" ELSE "title"),
                               AttrOf(BookOf(result.books[j].id),
                                      IF result.op = "search_by_author"
                                      THEN "author" ELSE "title"))

C8_Witness ==
    /\ IsSearch /\ result.op = "search_by_author" /\ result.value = <<42>>
    /\ Unfiltered /\ result.user_id = 1
    /\ Len(result.books) = 2 /\ result.books[1].id = 2
    /\ \E r \in reading_status : r.user_id = 1
    /\ \E r \in reading_status : r.user_id = 2

\* s contains t as a substring, letter case ignored
ContainsIgnoreCase(s, t) ==
    \E k \in 0..(Len(s) - Len(t)) :
        SubSeq(Lower(s), k + 1, k + Len(t)) = Lower(t)

\* C9: for a text other than "*" and "", search_by_author / search_by_title
\* with no filter return exactly the books whose author / title contains
\* the text, letter case ignored, also when the text has '%' or '_' in it.
C9_Substring ==
    (IsSearch /\ result.op # "search_by_categories"
       /\ result.value \notin {<<42>>, <<>>} /\ Unfiltered) =>
        ReturnedIds = {b.id : b \in {x \in books :
                          ContainsIgnoreCase(AttrOf(x, IF result.op = "search_by_author"
                                                       THEN "author" ELSE "title"),
                                             result.value)}}

\* The caller user_id has a tag on book i whose name is in names
CarriesTag(user_id, i, names) ==
    \E g \in tags, t \in tag_books :
        /\ g.owner_id = user_id /\ t.tag_id = g.id /\ t.book_id = i
        /\ \E k \in 1..Len(names) : g.name = Lower(names[k])

\* The primary predicate of the request on a book
PrimaryMatch(args, b) ==
    IF Truthy(args.author) THEN attribute_ilike(b, "author", args.author)
    ELSE IF Truthy(args.title) THEN attribute_ilike(b, "title", args.title)
    ELSE \E k \in 1..Len(args.cat) :
            LET category == id_to_fullpath(args.cat[k]) IN
            category.ok /\ b.categories_flat = category.val

\* C7: a search the route makes with a non-empty tag filter returns the
\* primary matches that carry a tag of the caller whose name is in the
\* filter, and no other entry.
C7_TagFilter ==
    (result.op = "search" /\ result.args.tag # <<>>
       /\ (Truthy(result.args.author) \/ Truthy(result.args.title)
           \/ result.args.cat # <<>>)) =>
        \A b \in books :
            b.id \in ReturnedIds <=>
                (PrimaryMatch(result.args, b)
                   /\ CarriesTag(result.user_id, b.id, result.args.tag))

\* C10: whatever the status, feedback and tag filters, the entries returned
\* are among those the same primary search returns with no filter, for a
\* call of a search function and for a request to the route alike.
C10_FiltersNarrow ==
    /\ IsSearch => ReturnedIds \subseteq PrimaryIds(result.user_id)
    /\ result.op = "search" =>
          \A i \in ReturnedIds : PrimaryMatch(result.args, BookOf(i))

C10_Witness ==
    /\ IsSearch /\ ~Unfiltered
    /\ ReturnedIds # {}
    /\ ReturnedIds # PrimaryIds(result.user_id)

RouteOps == {"search", "download"}

\* The request of result searches by its cat tokens
SearchesByCat ==
    /\ result.op \in RouteOps
    /\ ~Truthy(result.args.author) /\ ~Truthy(result.args.title)
    /\ result.args.cat # <<>>

\* C11: a /search or /download request that searches by cat tokens, one of
\* which id_to_fullpath fails to decode, is answered 400 (not a server
\* error) and returns no entry.
C11_DecodeFailure400 ==
    (SearchesByCat /\ \E k \in 1..Len(result.args.cat) :
                         ~id_to_fullpath(result.args.cat[k]).ok) =>
        /\ result.status = 400
        /\ result.books = <<>>

\* The reverse substitution of id_to_fullpath on a token
Substituted(t) == Replace(Replace(Replace(t, 45, 43), 95, 47), 42, 61)

\* An ASCII character that is neither a Base64 digit nor padding, before
\* or after the substitution
IsJunk(c) == c <= 127 /\ c \notin {42, 61, 45, 95} /\ B64Index(c) = 64

\* The token without such characters
WithoutJunk(t) == SelectSeq(t, LAMBDA c : ~IsJunk(c))

\* A token in the substituted alphabet, of a length that is a multiple of
\* four, padded with '*' at its end only and by at most two
ValidToken(t) ==
    /\ Len(t) % 4 = 0
    /\ \A i \in 1..Len(t) :
          /\ t[i] <= 127
          /\ t[i] \notin {43, 47, 61}
          /\ t[i] = 42 \/ B64Index(Substituted(t)[i]) # 64
          /\ t[i] = 42 => /\ i >= Len(t) - 1
                          /\ \A j \in i..Len(t) : t[j] = 42

IsScalar(cp) == cp >= 0 /\ cp <= 1114111 /\ ~IsSurrogate(cp)

C13_TokenSafe ==
    token # Unset =>
        /\ token.ok
        /\ \A i \in 1..Len(token.val) : token.val[i] \notin {43, 47, 61}

C13_Witness ==
    /\ token # Unset /\ token.ok
    /\ \E i \in 1..Len(token.val) : token.val[i] = 45
    /\ \E i \in 1..Len(token.val) : token.val[i] = 95
    /\ \E i \in 1..Len(token.val) : token.val[i] = 42

\* The non-null category strings of the catalog, and their segments
CategoryStrings == {b.categories_flat : b \in books} \ {NullText}
Segments(c) == Split(c, SEPARATOR)

\* The leading sequences of segments of the category strings
Prefixes ==
    {SubSeq(Segments(c), 1, n) : <<c, n>> \in
        {<<c, n>> \in CategoryStrings \X (1..8) : n <= Len(Segments(c))}}

TreeBuilt == result.op = "_get_category_tree" /\ result.returns.ok

\* C14: the tree of _get_category_tree has one node for each distinct
\* prefix of the category strings and no other node, and a node has no
\* child exactly when no category string extends its path.
C14_TreeNodes ==
    TreeBuilt =>
        LET tree == result.returns.val IN
        /\ {tree[i] : i \in 1..Len(tree)} = Prefixes
        /\ \A i, j \in 1..Len(tree) : tree[i] = tree[j] => i = j
        /\ \A i \in 1..Len(tree) :
              ChildrenOf(tree, tree[i]) = <<>> <=>
                  ~\E c \in CategoryStrings :
                      /\ Len(Segments(c)) > Len(tree[i])
                      /\ SubSeq(Segments(c), 1, Len(tree[i])) = tree[i]

C14_Witness ==
    /\ TreeBuilt
    /\ Cardinality(CategoryStrings) = 3
    /\ \A c \in CategoryStrings : Len(Segments(c)) >= 2 /\ Segments(c)[1] = <<65>>
    /\ Len(result.returns.val) = 4

\* The place in the sorted category list of the first category string whose
\* segments start with path
FirstOccurrence(path) ==
    LET categories == get_category_list
        has == {i \in 1..Len(categories) :
                  /\ categories[i] # NullText
                  /\ Len(Segments(categories[i])) >= Len(path)
                  /\ SubSeq(Segments(categories[i]), 1, Len(path)) = path}
    IN CHOOSE i \in has : \A j \in has : i <= j

\* C15: the children of every node of the tree, and the roots, are in the
\* order in which their labels first occur at that place among the category
\* strings in list order; the root records of get_category_bs_tree are in
\* the same order.
C15_SiblingOrder ==
    /\ TreeBuilt =>
          LET tree == result.returns.val IN
          \A k \in 0..Len(tree) :
              LET siblings == ChildrenOf(tree, IF k = 0 THEN <<>> ELSE tree[k]) IN
              \A i, j \in 1..Len(siblings) :
                  i < j => FirstOccurrence(siblings[i]) < FirstOccurrence(siblings[j])
    /\ (result.op = "get_category_bs_tree" /\ result.returns.ok) =>
          LET bs_tree == result.returns.val IN
          \A i, j \in 1..Len(bs_tree) :
              (Len(bs_tree[i].at) = 1 /\ Len(bs_tree[j].at) = 1
                 /\ bs_tree[i].at[1] < bs_tree[j].at[1]) =>
                  FirstOccurrence(<<bs_tree[i].text>>) < FirstOccurrence(<<bs_tree[j].text>>)

C15_Witness ==
    /\ TreeBuilt
    /\ Len(ChildrenOf(result.returns.val, <<>>)) = 2
    /\ Len(ChildrenOf(result.returns.val, <<<<65>>>>)) = 2

\* The labels joined by the separator
RECURSIVE JoinPath(_)
JoinPath(path) ==
    IF Len(path) = 1 THEN path[1]
    ELSE path[1] \o SEPARATOR \o JoinPath(Tail(path))

\* The node of the tree at a place of the nested lists
RECURSIVE NodeAt(_, _)
NodeAt(tree, at) ==
    IF Len(at) = 1 THEN ChildrenOf(tree, <<>>)[at[1]]
    ELSE ChildrenOf(tree, NodeAt(tree, SubSeq(at, 1, Len(at) - 1)))[at[Len(at)]]

\* Place a comes before place b in a depth-first pre-order walk
RECURSIVE PreOrderBefore(_, _)
PreOrderBefore(a, b) ==
    IF a = <<>> THEN b # <<>>
    ELSE IF b = <<>> THEN FALSE
    ELSE IF Head(a) # Head(b) THEN Head(a) < Head(b)
    ELSE PreOrderBefore(Tail(a), Tail(b))

\* C16: get_category_bs_tree emits one record per node of the tree, in
\* depth-first pre-order; a record's text is the node's label, its fullpath
\* the labels from the root joined by ' > ', its id the token of the
\* fullpath, its checked flag false, and it has a nodes list exactly when the
\* node has children.
C16_BsTreeRecords ==
    (result.op = "get_category_bs_tree" /\ result.returns.ok) =>
        LET bs_tree == result.returns.val
            tree == get_category_tree.val
        IN /\ Len(bs_tree) = Len(tree)
           /\ \A i, j \in 1..Len(bs_tree) :
                 i < j => PreOrderBefore(bs_tree[i].at, bs_tree[j].at)
           /\ {NodeAt(tree, bs_tree[i].at) : i \in 1..Len(bs_tree)}
                 = {tree[i] : i \in 1..Len(tree)}
           /\ \A i \in 1..Len(bs_tree) :
                 LET node == NodeAt(tree, bs_tree[i].at) IN
                 /\ bs_tree[i].text = node[Len(node)]
                 /\ bs_tree[i].fullpath = JoinPath(node)
                 /\ bs_tree[i].id = fullpath_to_id(JoinPath(node)).val
                 /\ bs_tree[i].checked = FALSE
                 /\ bs_tree[i].has_nodes <=> ChildrenOf(tree, node) # <<>>

\* C17: _get_category_list returns each distinct non-null categories_flat
\* of the catalog once, in ascending order, and no null; it returns the empty
\* list for the empty catalog; and the tree is built for every catalog.
C17_CategoryList ==
    /\ result.op = "_get_category_list" =>
          LET categories == result.returns.val IN
          /\ result.returns.ok
          /\ \A i \in 1..Len(categories) : categories[i] # NullText
          /\ {categories[i] : i \in 1..Len(categories)} = CategoryStrings
          /\ \A i, j \in 1..Len(categories) :
                i < j => /\ categories[i] # categories[j]
                         /\ TextLeq(categories[i], categories[j])
          /\ books = {} => categories = <<>>
    /\ result.op \in {"_get_category_tree", "get_category_bs_tree"} =>
          result.returns.ok

\* The request of result names no author, no title and no cat
NoCriterion ==
    /\ ~Truthy(result.args.author) /\ ~Truthy(result.args.title)
    /\ result.args.cat = <<>>

\* The request of result has a sort column that is not one of the three,
\* or a sort column with a sort order that is not one of the two
BadSort ==
    /\ result.args.sortColumn \notin {None, ""}
    /\ \/ result.args.sortColumn \notin {"title", "author", "rating"}
       \/ result.args.sortOrder \notin {"asc", "desc"}

\* C18: a /search or /download request with no author, title or cat is
\* answered 400, and so is one with an invalid sort column or sort order;
\* any other request whose cat tokens decode is answered 200, also when no
\* entry matches.
C18_StatusCodes ==
    result.op \in RouteOps =>
        IF NoCriterion \/ BadSort THEN result.status = 400
        ELSE (SearchesByCat =>
                 \A k \in 1..Len(result.args.cat) :
                     id_to_fullpath(result.args.cat[k]).ok)
             => result.status = 200

\* What /details may report as the status and the feedback of book_id (the
\* request's string) for user_id.
ReportedStatus(user_id, book_id) == {r.book.status : r \in details(book_id, user_id)}
ReportedFeedback(user_id, book_id) == {r.book.feedback : r \in details(book_id, user_id)}

\* C19: after any sequence of successful /change_status requests of a user
\* for a book, /details for that user and book reports the status of the last
\* one: a successful request makes /details report its value, and every other
\* step (a request of another user, for another book, one that failed, any
\* other route) leaves what /details reports as it was.  /change_feedback
\* and the reported feedback likewise.  /details reads books, reading_status
\* and feedback only: a step that is no successful request and leaves the
\* three alone cannot change what it reports.
C19_LastWriteReported ==
    [][\/ /\ UNCHANGED <<books, reading_status, feedback>>
          /\ ~(result'.op \in {"change_status", "change_feedback"}
               /\ result'.status = 200)
       \/ \A user_id \in Users, book_id \in {<<49>>, <<50>>} :
            /\ IF /\ result'.op = "change_status" /\ result'.status = 200
                  /\ result'.user_id = user_id /\ result'.form.book_id = book_id
               THEN ReportedStatus(user_id, book_id)' = {result'.form.value}
               ELSE ReportedStatus(user_id, book_id)'
                       = ReportedStatus(user_id, book_id)
            /\ IF /\ result'.op = "change_feedback" /\ result'.status = 200
                  /\ result'.user_id = user_id /\ result'.form.book_id = book_id
               THEN ReportedFeedback(user_id, book_id)' = {result'.form.value}
               ELSE ReportedFeedback(user_id, book_id)'
                       = ReportedFeedback(user_id, book_id)
      ]_vars

\* C19 witness: /details answers user 1 with status 'up_next' for book 1 while
\* user 2 has status 'read' for that book: the two rows are apart.
C19_Witness ==
    /\ result.op = "details" /\ result.status = 200
    /\ result.user_id = 1 /\ result.id = <<49>>
    /\ result.book.status = "up_next"
    /\ \E r \in reading_status : r.user_id = 2 /\ r.book_id = 1 /\ r.status = "read"

\* A book_id that is a number: decimal digits, at least one
Numeric(text) ==
    /\ text # NullText /\ text # <<>>
    /\ \A i \in 1..Len(text) : text[i] >= 48 /\ text[i] <= 57

\* C20: /change_status (or /change_feedback) by an authenticated user with a
\* missing or non-numeric book_id, a missing value, or a value outside the
\* allowed set answers 400 and leaves every stored status and feedback
\* record unchanged.
C20_InvalidRejected ==
    [][/\ (/\ result'.op = "change_status" /\ result'.user_id # NoUser
           /\ \/ ~Numeric(result'.form.book_id)
              \/ result'.form.value \notin {"read", "up_next", "none"})
          => /\ result'.status = 400
             /\ reading_status' = reading_status /\ feedback' = feedback
       /\ (/\ result'.op = "change_feedback" /\ result'.user_id # NoUser
           /\ \/ ~Numeric(result'.form.book_id)
              \/ result'.form.value \notin {"like", "dislike", "none"})
          => /\ result'.status = 400
             /\ reading_status' = reading_status /\ feedback' = feedback
      ]_vars

\* C21: a book is added or edited only by a request of a caller holding the
\* role editor and deleted only by one of a caller holding the role admin; a
\* status or feedback record is written only by a request of a signed-in
\* caller; a caller lacking the role is answered 403, a caller of the status
\* and feedback routes lacking the login 302, and such a request changes
\* nothing in storage.
C21_WritesAuthorized ==
    [][/\ (\E b \in books' : b \notin books)
            => /\ result'.op \in {"add_book", "edit_book"}
               /\ "editor" \in RolesOf(result'.user_id)
       /\ (\E b \in books : \A c \in books' : c.id # b.id)
            => /\ result'.op = "delete_book"
               /\ "admin" \in RolesOf(result'.user_id)
       /\ (reading_status' # reading_status \/ feedback' # feedback)
            => /\ result'.op \in {"change_status", "change_feedback"}
               /\ result'.user_id # NoUser
       /\ (result'.op \in {"add_book", "edit_book"}
              /\ "editor" \notin RolesOf(result'.user_id))
            => result'.status = 403 /\ UNCHANGED dbVars
       /\ (result'.op = "delete_book" /\ "admin" \notin RolesOf(result'.user_id))
            => result'.status = 403 /\ UNCHANGED dbVars
       /\ (result'.op \in {"change_status", "change_feedback"}
              /\ result'.user_id = NoUser)
            => result'.status = 302 /\ UNCHANGED dbVars
      ]_vars

\* C21 witness: the administrator, who is no editor, has deleted a book that
\* the editor had added or edited before, while a status record exists.
C21_Witness ==
    /\ result.op = "delete_book" /\ result.status = 200 /\ result.user_id = 3
    /\ \E b \in books : b.categories_flat = <<70>> /\ b.author = <<97>>
    /\ reading_status # {}

\* C22: del_book(book_id) raises ValueError when no book has the id, and
\* leaves the catalog unchanged in that case: the call fails with that
\* error and returns no new catalog.
C22_DelBookNotFound ==
    \A book_id \in {<<49>>, <<51>>} :
        (~\E b \in books : b.id = DbInt(book_id))
           => del_book(book_id) = Fail("ValueError")

\* C25: custom_user_loader(user_id) returns a user only if a user with that
\* fs_uniquifier exists and is active in the datastore at the time of the
\* call, cached before or not.
C25_LoaderReturnsActive ==
    [][(result'.op = "custom_user_loader" /\ result # result'
          /\ result'.returns # NullRow)
         => user_store[result'.user_id] = "active"
      ]_vars

\* C26: after on_logout for a user the cache holds no entry under the key
\* custom_user_loader uses for that user; a call of custom_user_loader that
\* finds no entry returns what the datastore holds; no entry of the cache is
\* an absent or inactive user.
C26_LogoutInvalidates ==
    [][/\ (result'.op = "on_logout" /\ result # result')
            => ~\E e \in user_cache' :
                   e.key = cache_key_from_string(result'.user_id)
       /\ (result'.op = "custom_user_loader" /\ result # result'
              /\ cache_get(cache_key_from_string(result'.user_id)) = NullRow)
            => result'.returns = load_user_from_datastore(result'.user_id)
       /\ \A e \in user_cache' : e.user # NullRow /\ e.user.active
      ]_vars

\* C26 witness: on_logout has deleted the entry of a user who was cached.
C26_Witness ==
    /\ result.op = "on_logout" /\ result.returns
    /\ cache_get(cache_key_from_string(result.user_id)) = NullRow

\* A step of the hook check_session_timeout, of the hook check_ip_binding
TimeoutStep == request.stage = "check_session_timeout" /\ request'.stage # request.stage
BindingStep == request.stage = "check_ip_binding" /\ request'.stage # request.stage

\* C27: for a request with a non-empty session whose last_activity is more
\* than 1800 seconds before the current time, check_session_timeout clears
\* the session (the login and every other earlier key) and then sets
\* last_activity to the current time, before the view runs; when the gap is
\* at most 1800 seconds it keeps the other keys and updates last_activity
\* alone.
C27_SessionTimeout ==
    [][(TimeoutStep /\ ~IsEmptySession(session) /\ session.last_activity # -1)
         => IF now - session.last_activity > 1800
            THEN session' = [EmptySession EXCEPT !.last_activity = now]
            ELSE session' = [session EXCEPT !.last_activity = now]
      ]_vars

\* C27 witness: the view is about to run for a request that brought a login
\* older than 1800 seconds from the address it was bound to, and the login
\* is gone.
C27_Witness ==
    /\ request.stage = "view"
    /\ request.arrived.user_id # 0 /\ request.arrived.last_activity # -1
    /\ now - request.arrived.last_activity > 1800
    /\ request.arrived.user_ip = request.remote_addr
    /\ session.user_id = 0 /\ session.last_activity = now

\* C28: for a request with a non-empty session whose stored user_ip differs
\* from the request's remote address, check_ip_binding clears the session
\* before the view runs; when the view of a request that brought a non-empty
\* session runs, session['user_ip'] is the request's remote address, and
\* nothing of a session stored for another address is left: no login, no
\* other key, and a last_activity only if check_session_timeout had cleared
\* the session before and set it anew.
C28_IpBinding ==
    [][/\ (BindingStep /\ ~IsEmptySession(session) /\ session.user_ip # 0
              /\ session.user_ip # request.remote_addr)
            => session' = [EmptySession EXCEPT !.user_ip = request.remote_addr]
       /\ (request'.stage = "view" /\ ~IsEmptySession(request'.arrived))
            => /\ session'.user_ip = request'.remote_addr
               /\ (request'.arrived.user_ip \notin {0, request'.remote_addr})
                    => /\ session'.user_id = 0
                       /\ ~session'.other /\ ~session'.permanent
                       /\ session'.last_activity # -1
                            => session'.last_activity
                                 > request'.arrived.last_activity + 1800
      ]_vars

\* C28 witness: the view is about to run for a request that brought a fresh
\* login from another address than the one stored, and the login is gone.
C28_Witness ==
    /\ request.stage = "view"
    /\ request.arrived.user_id # 0 /\ request.arrived.user_ip # 0
    /\ request.arrived.user_ip # request.remote_addr
    /\ now - request.arrived.last_activity <= 1800
    /\ session = [EmptySession EXCEPT !.user_ip = request.remote_addr]

\* C23: in every reachable state, whatever the interleaving of the requests
\* of a user for a book, there is at most one reading-status record and at
\* most one feedback record per (user, book) pair.
C23_AtMostOne ==
    \A user_id \in Users, book_id \in BookIds :
        /\ Cardinality({r \in reading_status :
                           r.user_id = user_id /\ r.book_id = book_id}) <= 1
        /\ Cardinality({r \in feedback :
                           r.user_id = user_id /\ r.book_id = book_id}) <= 1


\* C24: for a caller who is not signed in, the lists a search may return for
\* given primary arguments and given status and feedback filters are the same
\* before and after any step that leaves the catalog as it is and changes only
\* users' status, feedback and tag records.
C24_AnonymousIndependent ==
    [][\/ UNCHANGED <<reading_status, feedback, tags, tag_books>>
       \/ books' # books
       \/ \A status_filter \in StatusFilters, feedback_filter \in FeedbackFilters :
            /\ \A text \in SearchTexts :
                 /\ search_by_author(text, status_filter, feedback_filter, NoUser)'
                      = search_by_author(text, status_filter, feedback_filter, NoUser)
                 /\ search_by_title(text, status_filter, feedback_filter, NoUser)'
                      = search_by_title(text, status_filter, feedback_filter, NoUser)
            /\ \A categories \in CategoryLists :
                 search_by_categories(categories, status_filter, feedback_filter, NoUser)'
                   = search_by_categories(categories, status_filter, feedback_filter, NoUser)]_vars


\* The stored tags and associations are well formed: one tag per owner and
\* name, lower-case names, one association per tag and book.
TagsWellFormed ==
    /\ \A t1, t2 \in tags :
          (t1.owner_id = t2.owner_id /\ t1.name = t2.name) => t1 = t2
    /\ \A t \in tags : t.name = Lower(t.name)
    /\ \A a, b \in tag_books :
          (a.tag_id = b.tag_id /\ a.book_id = b.book_id) => a = b

\* The tag and the association a request asks for are among the rows seen.
TagStored(p, seen) ==
    \E t \in seen.tags :
        /\ t.owner_id = p.req.user_id /\ t.name = p.tag_name
        /\ \E tb \in seen.tag_books :
              tb.tag_id = t.id /\ tb.book_id = p.req.book_id

\* The steps of a request that repeats an earlier one, whose tag and
\* association were stored when it began: it finds the tag, finds the
\* association, stores nothing and answers with the list of the store as it
\* was left.
RepeatedAddTagStep ==
    \A w \in Workers :
        LET p == pending[w]
            q == pending'[w]
        IN
        /\ (p = Idle /\ q # Idle
              /\ TagStored(q, [tags |-> tags, tag_books |-> tag_books])) =>
                 q.pc = "tag_book" /\ TagStored(q, q.snapshot)
        /\ (p # Idle /\ q # p /\ TagStored(p, Snapshot(p))) =>
              /\ UNCHANGED <<tags, tag_books>>
              /\ p.pc = "tag_book" => q.pc = "get_tags_and_colors"
              /\ p.pc = "get_tags_and_colors" =>
                    result' = add_tag_response(p.req, 200,
                                 get_tags_and_colors(p.req.book_id, p.req.user_id,
                                                     Snapshot(p)))

\* C29: whatever /add_tag requests are served and however their steps
\* interleave, no two tags have the same owner and name, every stored name is
\* lower-case and a tag is associated with a book at most once; a request
\* whose tag and association are stored already changes neither table and
\* returns the list of the book's tags as stored.
C29_TagsUnique == []TagsWellFormed /\ [][RepeatedAddTagStep]_vars

\* C29 witness: the tag "y" of a request for "Y" is stored with its
\* association, the request was answered with the list ["y"], and the same
\* request, sent again, has found both and is about to answer.
C29_Witness ==
    /\ result.op = "add_tag" /\ result.status = 200
    /\ result.tag = <<89>> /\ result.tags = <<<<121>>>>
    /\ \E w \in Workers :
          /\ pending[w] # Idle
          /\ pending[w].pc = "get_tags_and_colors"
          /\ pending[w].req = [user_id |-> result.user_id, tag |-> result.tag,
                               book_id |-> result.book_id]
          /\ TagStored(pending[w], pending[w].snapshot)


\* C30: the node list of get_category_bs_tree has, for every category string
\* stored on a book, exactly one node whose id decodes to that string, and
\* the category search with the decoded id returns exactly the books of that
\* category; the fullpath of every leaf is a stored category string; no two
\* nodes have the same id.
C30_NodesMatchCategories ==
    result.op = "get_category_bs_tree" =>
        /\ result.returns.ok
        /\ LET bs_tree == result.returns.val
               places == 1..Len(bs_tree)
           IN
           /\ \A c \in CategoryStrings :
                 /\ Cardinality({i \in places :
                                   id_to_fullpath(bs_tree[i].id) = Ok(c)}) = 1
                 /\ \A i \in places :
                       id_to_fullpath(bs_tree[i].id) = Ok(c) =>
                          \A bks \in search_by_categories(
                                        <<id_to_fullpath(bs_tree[i].id).val>>,
                                        None, None, NoUser) :
                             {bks[k].id : k \in 1..Len(bks)}
                                = {b.id : b \in {x \in books : x.categories_flat = c}}
           /\ \A i \in places :
                 ~bs_tree[i].has_nodes => bs_tree[i].fullpath \in CategoryStrings
           /\ \A i, j \in places : i # j => bs_tree[i].id # bs_tree[j].id

============================================================================
